---- MODULE Spec2Model ----
(***************************************************************************)
(* A model of edge-rs: the per-connection request/response state machine   *)
(* (src/handler.rs), the byte buffer it reads and writes (src/buffer.rs),  *)
(* the router (src/router.rs) and the response holder with its rendezvous  *)
(* flag (src/response.rs).                                                 *)
(*                                                                         *)
(* Representation notes.                                                   *)
(*  - Option<T> is a sequence of length 0 (None) or 1 (Some(x)).           *)
(*  - Vec<u8> is [bytes, zeros]: the bytes followed by `zeros` zero bytes. *)
(*    Buffer only ever extends a vector with zeros (vec![0; n], resize(n,  *)
(*    0)), so this is the vector itself with its zero tail run-length      *)
(*    encoded; it keeps the 4096-byte growth step checkable.               *)
(*  - A header collection is a record of Options, one field per header     *)
(*    the code looks at.                                                   *)
(***************************************************************************)
EXTENDS Integers, Sequences, FiniteSets, TLC

\* ------------------------------------------------------------------------
\* Bounds of the model
\* ------------------------------------------------------------------------
MaxChunks == 2      \* chunks a streaming closure writes before it returns
MaxBody == 2        \* request body bytes the peer supplies at most
MaxScript == 2     \* transport calls (read/write) inside one read_from/write_to

\* ------------------------------------------------------------------------
\* Option, Vec<u8>
\* ------------------------------------------------------------------------
None == <<>>
Some(x) == <<x>>
is_some(o) == o /= <<>>
is_none(o) == o = <<>>
unwrap(o) == o[1]

VecNew == [bytes |-> <<>>, zeros |-> 0]
VecOf(s) == [bytes |-> s, zeros |-> 0]
VecZeros(n) == [bytes |-> <<>>, zeros |-> n]
VecLen(v) == Len(v.bytes) + v.zeros
VecAt(v, i) == IF i <= Len(v.bytes) THEN v.bytes[i] ELSE 0
\* the n bytes of v that follow position pos (0-based), i.e. v[pos .. pos+n]
VecSlice(v, pos, n) == [i \in 1..n |-> VecAt(v, pos + i)]
\* Vec::resize(n, 0) and Vec::truncate(n)
VecResize(v, n) ==
    IF n >= Len(v.bytes)
    THEN [bytes |-> v.bytes, zeros |-> n - Len(v.bytes)]
    ELSE [bytes |-> SubSeq(v.bytes, 1, n), zeros |-> 0]
\* copy data into v[pos .. pos+Len(data)]
VecStore(v, pos, data) ==
    LET B == v.bytes
        pre == IF pos <= Len(B) THEN SubSeq(B, 1, pos)
               ELSE B \o [i \in 1..(pos - Len(B)) |-> 0]
        post == IF pos + Len(data) < Len(B)
                THEN SubSeq(B, pos + Len(data) + 1, Len(B)) ELSE <<>>
        nb == pre \o data \o post
    IN  [bytes |-> nb, zeros |-> VecLen(v) - Len(nb)]

\* ------------------------------------------------------------------------
\* buffer.rs
\* ------------------------------------------------------------------------
DEFAULT_BUF_SIZE == 4096

Buffer_new == [content |-> VecNew, pos |-> 0, growable |-> TRUE]
Buffer_new_fixed(capacity) ==
    [content |-> VecZeros(capacity), pos |-> 0, growable |-> FALSE]
Buffer_from(content) == [content |-> VecOf(content), pos |-> 0, growable |-> TRUE]
len(b) == VecLen(b.content)
\* is_empty as it would be if it tested for an untouched buffer
is_empty_at_start(b) == b.pos = 0
is_empty(b) == b.pos = len(b)

\* What one call of Read::read / Write::write on the transport can answer.
\* n > 0: n bytes transferred; "zero": Ok(0); "block": WouldBlock; "fail":
\* any other error.
IoData(n) == [kind |-> "data", n |-> n]
IoZero == [kind |-> "zero", n |-> 0]
IoBlock == [kind |-> "block", n |-> 0]
IoFail == [kind |-> "fail", n |-> 0]
IoOutcomes == {IoData(n) : n \in 1..MaxBody} \cup {IoZero, IoBlock, IoFail}
\* the answers the transport gives during one read_from / write_to call
IoScripts == UNION {[1..k -> IoOutcomes] : k \in 1..MaxScript}

\* The i-th byte (1-based) of the request body the peer sends.
BodyByte(i) == i % 256

\* read_from with one slip: "eof" takes the end of data for the end of a
\* fixed buffer's body, "padded" does not truncate a growable buffer
RECURSIVE read_from_slip(_, _, _)
read_from_slip(self, script, slip) ==
    LET grown ==
            IF self.growable /\ self.pos = len(self)
            THEN [self EXCEPT !.content =
                    VecResize(@, IF len(self) < DEFAULT_BUF_SIZE
                                 THEN DEFAULT_BUF_SIZE ELSE len(self) * 2)]
            ELSE self
        room == len(grown) - grown.pos
    IN  IF script = <<>> THEN [buffer |-> grown, result |-> "stuck", rest |-> <<>>]
        ELSE LET o == Head(script) IN
          CASE o.kind = "zero" \/ (o.kind = "data" /\ room = 0) ->
                 IF grown.growable
                 THEN [buffer |-> IF slip = "padded" THEN grown
                                  ELSE [grown EXCEPT !.content = VecResize(@, grown.pos)],
                       result |-> "done", rest |-> Tail(script)]
                 ELSE IF grown.pos /= len(grown) /\ slip /= "eof"
                      THEN [buffer |-> grown, result |-> "err", rest |-> Tail(script)]
                      ELSE [buffer |-> grown, result |-> "done", rest |-> Tail(script)]
            [] o.kind = "data" ->
                 IF o.n > room \/ grown.pos + o.n > MaxBody
                 THEN [buffer |-> grown, result |-> "stuck", rest |-> script]
                 ELSE LET data == [i \in 1..o.n |-> BodyByte(grown.pos + i)]
                          b2 == [grown EXCEPT !.content = VecStore(@, grown.pos, data),
                                              !.pos = @ + o.n]
                      IN  IF ~b2.growable /\ b2.pos = len(b2)
                          THEN [buffer |-> b2, result |-> "done", rest |-> Tail(script)]
                          ELSE read_from_slip(b2, Tail(script), slip)
            [] o.kind = "block" ->
                 [buffer |-> grown, result |-> "more", rest |-> Tail(script)]
            [] OTHER ->
                 [buffer |-> grown, result |-> "err", rest |-> Tail(script)]
read_from_accepting_eof(self, script) == read_from_slip(self, script, "eof")
read_from_padded(self, script) == read_from_slip(self, script, "padded")

\* Buffer::read_from, the loop unrolled over the reader's answers.  Returns
\* the buffer, the result ("more" = Ok(true), "done" = Ok(false), "err")
\* and the answers not consumed; "stuck" when the answers run out before
\* the loop returns or an answer is impossible for the slice offered.
RECURSIVE read_from(_, _)
read_from(self, script) ==
    LET grown ==
            IF self.growable /\ self.pos = len(self)
            THEN [self EXCEPT !.content =
                    VecResize(@, IF len(self) < DEFAULT_BUF_SIZE
                                 THEN DEFAULT_BUF_SIZE ELSE len(self) * 2)]
            ELSE self
        room == len(grown) - grown.pos
    IN  IF script = <<>> THEN [buffer |-> grown, result |-> "stuck", rest |-> <<>>]
        ELSE LET o == Head(script) IN
          CASE o.kind = "zero" \/ (o.kind = "data" /\ room = 0) ->
                 IF grown.growable
                 THEN [buffer |-> [grown EXCEPT !.content = VecResize(@, grown.pos)],
                       result |-> "done", rest |-> Tail(script)]
                 ELSE IF grown.pos /= len(grown)
                      THEN [buffer |-> grown, result |-> "err", rest |-> Tail(script)]
                      ELSE [buffer |-> grown, result |-> "done", rest |-> Tail(script)]
            [] o.kind = "data" ->
                 IF o.n > room \/ grown.pos + o.n > MaxBody
                 THEN [buffer |-> grown, result |-> "stuck", rest |-> script]
                 ELSE LET data == [i \in 1..o.n |-> BodyByte(grown.pos + i)]
                          b2 == [grown EXCEPT !.content = VecStore(@, grown.pos, data),
                                              !.pos = @ + o.n]
                      IN  IF ~b2.growable /\ b2.pos = len(b2)
                          THEN [buffer |-> b2, result |-> "done", rest |-> Tail(script)]
                          ELSE read_from(b2, Tail(script))
            [] o.kind = "block" ->
                 [buffer |-> grown, result |-> "more", rest |-> Tail(script)]
            [] OTHER ->
                 [buffer |-> grown, result |-> "err", rest |-> Tail(script)]

\* write_loop with one slip: "resend" starts over from the first byte after
\* a would-block, "retry" takes an accepted length of zero for a would-block
RECURSIVE write_loop_slip(_, _, _, _)
write_loop_slip(self, script, out, slip) ==
    IF script = <<>> THEN [buffer |-> self, result |-> "stuck", rest |-> <<>>, out |-> out]
    ELSE LET o == Head(script) IN
      CASE o.kind = "zero" ->
             [buffer |-> self, result |-> IF slip = "retry" THEN "more" ELSE "err",
              rest |-> Tail(script), out |-> out]
        [] o.kind = "data" ->
             IF o.n > len(self) - self.pos
             THEN [buffer |-> self, result |-> "stuck", rest |-> script, out |-> out]
             ELSE LET b2 == [self EXCEPT !.pos = @ + o.n]
                      out2 == out \o VecSlice(self.content, self.pos, o.n)
                  IN  IF b2.pos = len(b2)
                      THEN [buffer |-> b2, result |-> "done", rest |-> Tail(script), out |-> out2]
                      ELSE write_loop_slip(b2, Tail(script), out2, slip)
        [] o.kind = "block" ->
             [buffer |-> IF slip = "resend" THEN [self EXCEPT !.pos = 0] ELSE self,
              result |-> "more", rest |-> Tail(script), out |-> out]
        [] OTHER ->
             [buffer |-> self, result |-> "err", rest |-> Tail(script), out |-> out]
write_loop_resending(self, script, out) == write_loop_slip(self, script, out, "resend")
write_loop_retrying_zero(self, script, out) == write_loop_slip(self, script, out, "retry")

\* Buffer::write_to, the loop unrolled over the writer's answers.  `out` is
\* what the writer accepted, in order.
RECURSIVE write_loop(_, _, _)
write_loop(self, script, out) ==
    IF script = <<>> THEN [buffer |-> self, result |-> "stuck", rest |-> <<>>, out |-> out]
    ELSE LET o == Head(script) IN
      CASE o.kind = "zero" ->
             [buffer |-> self, result |-> "err", rest |-> Tail(script), out |-> out]
        [] o.kind = "data" ->
             IF o.n > len(self) - self.pos
             THEN [buffer |-> self, result |-> "stuck", rest |-> script, out |-> out]
             ELSE LET b2 == [self EXCEPT !.pos = @ + o.n]
                      out2 == out \o VecSlice(self.content, self.pos, o.n)
                  IN  IF b2.pos = len(b2)
                      THEN [buffer |-> b2, result |-> "done", rest |-> Tail(script), out |-> out2]
                      ELSE write_loop(b2, Tail(script), out2)
        [] o.kind = "block" ->
             [buffer |-> self, result |-> "more", rest |-> Tail(script), out |-> out]
        [] OTHER ->
             [buffer |-> self, result |-> "err", rest |-> Tail(script), out |-> out]

write_to(self, script) ==
    IF self.pos = len(self)
    THEN [buffer |-> self, result |-> "done", rest |-> script, out |-> <<>>]
    ELSE write_loop(self, script, <<>>)

\* Buffer::set_capacity
set_capacity(self, capacity) == [self EXCEPT !.content = VecResize(@, capacity)]

\* Buffer::send
send(self, content) == [self EXCEPT !.content = VecOf(content)]

\* take as it would be if it copied the content out
take_copying(self) == [buffer |-> [self EXCEPT !.pos = 0], ret |-> self.content]
\* Buffer::take: the buffer left behind and the vector returned
take(self) ==
    [buffer |-> [self EXCEPT !.pos = 0, !.content = VecNew], ret |-> self.content]

\* ------------------------------------------------------------------------
\* The parsed request head hyper hands to on_request, and request.rs
\* ------------------------------------------------------------------------
Methods == {"GET", "HEAD", "POST", "DELETE", "CONNECT", "TRACE"}
Versions == {"Http11", "Http20"}
\* Transfer-Encoding: absent, or the list of codings
TransferEncodings == {None, Some(<<"chunked">>), Some(<<"gzip">>), Some(<<"gzip", "chunked">>)}
\* Content-Length: absent, or the raw field with the value it parses to
ContentLengths == {None, Some([valid |-> FALSE, len |-> 0]),
                   Some([valid |-> TRUE, len |-> 0]), Some([valid |-> TRUE, len |-> MaxBody])}
Paths == {<<"a", "b">>, <<"nope">>}

HttpRequests ==
    [method : Methods, version : Versions,
     headers : [TransferEncoding : TransferEncodings, ContentLength : ContentLengths],
     uri_ok : BOOLEAN, path : Paths]

\* headers.get::<ContentLength>(): the typed value, when the field parses
get_ContentLength(headers) ==
    IF is_some(headers.ContentLength) /\ unwrap(headers.ContentLength).valid
    THEN Some(unwrap(headers.ContentLength).len) ELSE None
\* headers.has::<ContentLength>(): the field is present, parseable or not
has_ContentLength(headers) == is_some(headers.ContentLength)
last(seq) == IF seq = <<>> THEN None ELSE Some(seq[Len(seq)])

\* request::new: the Request built from the head; params and body unset
request_new(inner) ==
    [method |-> inner.method, version |-> inner.version, headers |-> inner.headers,
     path |-> inner.path, params |-> None, body |-> None]
\* set_body as it would be if the buffer stayed with the handler
set_body_leaving(request, body) == request
set_body(request, body) ==
    IF is_some(request) THEN Some([unwrap(request) EXCEPT !.body = body]) ELSE request
set_params(request, params) == [request EXCEPT !.params = Some(params)]

MsgTransferEncoding == "Last encoding of Transfer-Encoding must be chunked"
MsgContentLength == "Invalid Content-Length header"
MsgTrace == "A client MUST NOT send a message body in a TRACE request."

CheckErr(msg, buffer) == [ok |-> FALSE, read |-> FALSE, msg |-> msg, buffer |-> buffer]
CheckOk(read, buffer) == [ok |-> TRUE, read |-> read, msg |-> "", buffer |-> buffer]

\* check_request as it would be if a Content-Length next to a valid
\* Transfer-Encoding were a framing error, and as it would be if the buffer
\* were allocated before the method is looked at
check_request_rejecting_both(req, buffer) ==
    LET headers == req.headers
        http1x == req.version \in {"Http09", "Http10", "Http11"}
        te == headers.TransferEncoding
        cl == get_ContentLength(headers)
        by_method(length) ==
            IF req.method \in {"GET", "HEAD", "DELETE", "CONNECT"} THEN CheckOk(FALSE, buffer)
            ELSE IF req.method = "TRACE" THEN CheckErr(MsgTrace, buffer)
            ELSE CheckOk(TRUE, Some(IF is_some(length)
                                    THEN Buffer_new_fixed(unwrap(length))
                                    ELSE Buffer_new))
    IN  IF is_some(te)
        THEN IF last(unwrap(te)) /= Some("chunked")
             THEN CheckErr(MsgTransferEncoding, buffer)
             ELSE IF has_ContentLength(headers)
             THEN CheckErr(MsgContentLength, buffer)
             ELSE by_method(None)
        ELSE IF is_some(cl)
        THEN IF unwrap(cl) = 0 THEN CheckOk(FALSE, buffer) ELSE by_method(cl)
        ELSE IF has_ContentLength(headers) THEN CheckErr(MsgContentLength, buffer)
        ELSE IF http1x THEN CheckOk(FALSE, buffer)
        ELSE by_method(None)
check_request_allocating_first(req, buffer) ==
    LET headers == req.headers
        http1x == req.version \in {"Http09", "Http10", "Http11"}
        te == headers.TransferEncoding
        cl == get_ContentLength(headers)
        by_method(length) ==
            LET allocated == Some(IF is_some(length)
                                  THEN Buffer_new_fixed(unwrap(length))
                                  ELSE Buffer_new)
            IN  IF req.method \in {"GET", "HEAD", "DELETE", "CONNECT"} THEN CheckOk(FALSE, buffer)
                ELSE IF req.method = "TRACE" THEN CheckErr(MsgTrace, allocated)
                ELSE CheckOk(TRUE, allocated)
    IN  IF is_some(te)
        THEN IF last(unwrap(te)) /= Some("chunked")
             THEN CheckErr(MsgTransferEncoding, buffer)
             ELSE by_method(None)
        ELSE IF is_some(cl)
        THEN IF unwrap(cl) = 0 THEN CheckOk(FALSE, buffer) ELSE by_method(cl)
        ELSE IF has_ContentLength(headers) THEN CheckErr(MsgContentLength, buffer)
        ELSE IF http1x THEN CheckOk(FALSE, buffer)
        ELSE by_method(None)

\* check_request with one slip: "trace" treats TRACE like GET, "growable"
\* always allocates a growable buffer, "empty" has no test for a zero length
check_request_slip(req, buffer, slip) ==
    LET headers == req.headers
        http1x == req.version \in {"Http09", "Http10", "Http11"}
        te == headers.TransferEncoding
        cl == get_ContentLength(headers)
        ignored == {"GET", "HEAD", "DELETE", "CONNECT"}
                   \cup (IF slip = "trace" THEN {"TRACE"} ELSE {})
        by_method(length) ==
            IF req.method \in ignored THEN CheckOk(FALSE, buffer)
            ELSE IF req.method = "TRACE" THEN CheckErr(MsgTrace, buffer)
            ELSE CheckOk(TRUE, Some(IF is_some(length) /\ slip /= "growable"
                                    THEN Buffer_new_fixed(unwrap(length))
                                    ELSE Buffer_new))
    IN  IF is_some(te)
        THEN IF last(unwrap(te)) /= Some("chunked")
             THEN CheckErr(MsgTransferEncoding, buffer)
             ELSE by_method(None)
        ELSE IF is_some(cl)
        THEN IF unwrap(cl) = 0 /\ slip /= "empty" THEN CheckOk(FALSE, buffer)
             ELSE by_method(cl)
        ELSE IF has_ContentLength(headers) THEN CheckErr(MsgContentLength, buffer)
        ELSE IF http1x THEN CheckOk(FALSE, buffer)
        ELSE by_method(None)
check_request_ignoring_trace(req, buffer) == check_request_slip(req, buffer, "trace")
check_request_growable_only(req, buffer) == check_request_slip(req, buffer, "growable")
check_request_reading_empty(req, buffer) == check_request_slip(req, buffer, "empty")
\* check_request as it would be if it asked for the body without a buffer
check_request_unallocated(req, buffer) ==
    [check_request_slip(req, buffer, "none") EXCEPT !.buffer = None]
\* check_request(req, &mut buffer): Err(msg) / Ok(false) / Ok(true), and the
\* buffer slot as the call leaves it.
check_request(req, buffer) ==
    LET headers == req.headers
        http1x == req.version \in {"Http09", "Http10", "Http11"}
        te == headers.TransferEncoding
        cl == get_ContentLength(headers)
        \* the payload decision of lines 466-483, len being an Option<usize>
        by_method(length) ==
            IF req.method \in {"GET", "HEAD", "DELETE", "CONNECT"} THEN CheckOk(FALSE, buffer)
            ELSE IF req.method = "TRACE" THEN CheckErr(MsgTrace, buffer)
            ELSE CheckOk(TRUE, Some(IF is_some(length)
                                    THEN Buffer_new_fixed(unwrap(length))
                                    ELSE Buffer_new))
    IN  IF is_some(te)
        THEN IF last(unwrap(te)) /= Some("chunked")
             THEN CheckErr(MsgTransferEncoding, buffer)
             ELSE by_method(None)
        ELSE IF is_some(cl)
        THEN IF unwrap(cl) = 0 THEN CheckOk(FALSE, buffer) ELSE by_method(cl)
        ELSE IF has_ContentLength(headers) THEN CheckErr(MsgContentLength, buffer)
        ELSE IF http1x THEN CheckOk(FALSE, buffer)
        ELSE by_method(None)

\* ------------------------------------------------------------------------
\* router.rs
\* ------------------------------------------------------------------------
Fixed(s) == [fixed |-> TRUE, s |-> s]
Variable(s) == [fixed |-> FALSE, s |-> s]

EmptyMap == [n \in {} |-> ""]
MapInsert(m, k, v) == [n \in DOMAIN m \cup {k} |-> IF n = k THEN v ELSE m[n]]

\* match_prefix as it would be if it only compared the lengths
match_prefix_by_length(prefix, path) == Len(path) >= Len(prefix)

\* RouterAny::match_prefix: zip(prefix, path).all(fixed segment == component)
match_prefix(prefix, path) ==
    /\ Len(path) >= Len(prefix)
    /\ \A i \in 1..Len(prefix) : prefix[i].fixed /\ prefix[i].s = path[i]

\* The inner loop of find_callback over the path segments after the prefix:
\* i is the position of it_route, params the map being filled.  Returns
\* whether the loop ran to its end (no `continue 'top`), the iterator
\* position and the params.
RECURSIVE walk_route(_, _, _, _)
walk_route(segments, actuals, i, params) ==
    IF actuals = <<>> THEN [completed |-> TRUE, i |-> i, params |-> params]
    ELSE LET actual == Head(actuals) IN
         IF i <= Len(segments) /\ segments[i].fixed /\ segments[i].s /= actual
         THEN [completed |-> FALSE, i |-> i + 1, params |-> params]
         ELSE IF i <= Len(segments) /\ ~segments[i].fixed
         THEN walk_route(segments, Tail(actuals), i + 1, MapInsert(params, segments[i].s, actual))
         ELSE walk_route(segments, Tail(actuals), i + 1, params)

\* The 'top loop of find_callback over the routes of the request's method.
RECURSIVE try_routes(_, _, _)
try_routes(routes, actuals, params) ==
    IF routes = <<>> THEN None
    ELSE LET route == Head(routes)
             w == walk_route(route.segments, actuals, 1, params)
         IN  IF ~w.completed
             THEN try_routes(Tail(routes), actuals, w.params)          \* continue 'top
             ELSE IF w.i > Len(route.segments)                        \* it_route.next().is_none()
             THEN Some([callback |-> route.callback, params |-> w.params])
             ELSE try_routes(Tail(routes), actuals, EmptyMap)          \* params.clear()

\* find_callback as it would be if it fell back on the GET routes for a
\* method nothing is registered for
find_callback_any_method(router, req) ==
    IF ~match_prefix(router.prefix, req.path) THEN None
    ELSE try_routes(router.routes[IF req.method \in DOMAIN router.routes
                                  THEN req.method ELSE "GET"],
                    SubSeq(req.path, Len(router.prefix) + 1, Len(req.path)), EmptyMap)

\* RouterAny::find_callback: the callback and the params set on the request
find_callback(router, req) ==
    IF ~match_prefix(router.prefix, req.path) THEN None
    ELSE IF req.method \notin DOMAIN router.routes THEN None
    ELSE try_routes(router.routes[req.method],
                    SubSeq(req.path, Len(router.prefix) + 1, Len(req.path)), EmptyMap)

\* the routes the application registered (built once at startup)
AppRoutes == <<[segments |-> <<Fixed("a"), Variable("x")>>, callback |-> "first"],
               [segments |-> <<Fixed("a"), Fixed("b")>>, callback |-> "second"]>>
\* one router mounted at /p, one at /; nothing is registered for CONNECT
RoutedMethods == Methods \ {"CONNECT"}
Routers == <<[prefix |-> <<Fixed("p")>>, routes |-> [m \in RoutedMethods |-> AppRoutes]],
             [prefix |-> <<>>, routes |-> [m \in RoutedMethods |-> AppRoutes]]>>

\* self.routers.iter().filter_map(find_callback).next()
RECURSIVE first_callback(_, _)
first_callback(routers, req) ==
    IF routers = <<>> THEN None
    ELSE LET found == find_callback(Head(routers), req) IN
         IF is_some(found) THEN found ELSE first_callback(Tail(routers), req)

\* ------------------------------------------------------------------------
\* Text and bytes
\* ------------------------------------------------------------------------
MsgUrl == "relative URL without a base"
MsgApp == "oops"

\* str::as_bytes / String::into_bytes of the texts the model uses (ASCII)
into_bytes(s) ==
    IF s = MsgTransferEncoding THEN
      <<76, 97, 115, 116, 32, 101, 110, 99, 111, 100, 105, 110, 103, 32, 111, 102, 32, 84, 114, 97, 110, 115, 102, 101, 114, 45, 69, 110, 99, 111, 100, 105, 110, 103, 32, 109, 117, 115, 116, 32, 98, 101, 32, 99, 104, 117, 110, 107, 101, 100>> ELSE
    IF s = MsgContentLength THEN
      <<73, 110, 118, 97, 108, 105, 100, 32, 67, 111, 110, 116, 101, 110, 116, 45, 76, 101, 110, 103, 116, 104, 32, 104, 101, 97, 100, 101, 114>> ELSE
    IF s = MsgTrace THEN
      <<65, 32, 99, 108, 105, 101, 110, 116, 32, 77, 85, 83, 84, 32, 78, 79, 84, 32, 115, 101, 110, 100, 32, 97, 32, 109, 101, 115, 115, 97, 103, 101, 32, 98, 111, 100, 121, 32, 105, 110, 32, 97, 32, 84, 82, 65, 67, 69, 32, 114, 101, 113, 117, 101, 115, 116, 46>> ELSE
    IF s = MsgUrl THEN
      <<114, 101, 108, 97, 116, 105, 118, 101, 32, 85, 82, 76, 32, 119, 105, 116, 104, 111, 117, 116, 32, 97, 32, 98, 97, 115, 101>> ELSE
    IF s = MsgApp THEN
      <<111, 111, 112, 115>> ELSE
      <<>>

\* format!("not found: {:?}", req.path()).into_bytes()
not_found_bytes(path) ==
    IF path = <<"a", "b">> THEN
      <<110, 111, 116, 32, 102, 111, 117, 110, 100, 58, 32, 91, 34, 97, 34, 44, 32, 34, 98, 34, 93>>
    ELSE IF path = <<"nope">> THEN
      <<110, 111, 116, 32, 102, 111, 117, 110, 100, 58, 32, 91, 34, 110, 111, 112, 101, 34, 93>>
    ELSE <<>>

\* ------------------------------------------------------------------------
\* The response the application fills in (handler.rs uses response::Response)
\* ------------------------------------------------------------------------
StatusOk == 200
StatusNotFound == 404
StatusBadRequest == 400
StatusFound == 302
StatusNoContent == 204
StatusNotModified == 304
StatusContinue == 100
StatusInternalServerError == 500

NoHeaders == [ContentLength |-> None, ContentType |-> None, Location |-> None]

Response_new == [status |-> StatusOk, headers |-> NoHeaders, streaming |-> FALSE]
status(response, s) == [response EXCEPT !.status = s]
content_type(response, mime) == [response EXCEPT !.headers.ContentType = Some(mime)]
\* len as it would be if it kept a Content-Length already set
response_len_keeping(response, n) ==
    IF is_some(response.headers.ContentLength) THEN response
    ELSE [response EXCEPT !.headers.ContentLength = Some(n)]
response_len(response, n) == [response EXCEPT !.headers.ContentLength = Some(n)]
\* location as it would be if it set nothing
location_unset(response, url) == response
location(response, url) == [response EXCEPT !.headers.Location = Some(url)]
set_streaming(response) == [response EXCEPT !.streaming = TRUE]
is_streaming(response) == response.streaming

\* StatusCode::is_informational: the class of 100..199
is_informational(s) == s >= 100 /\ s <= 199

\* enum Reply, enum Body
Headers(response) == [kind |-> "Headers", response |-> Some(response), body |-> None]
Body(buffer) == [kind |-> "Body", response |-> None, body |-> Some(buffer)]
BodyEmpty == [kind |-> "Empty", buffer |-> None, closure |-> <<>>]
BodySome(buffer) == [kind |-> "Some", buffer |-> Some(buffer), closure |-> <<>>]
BodyStreaming(closure) == [kind |-> "Streaming", buffer |-> None, closure |-> closure]

\* What a route's callback returns: Ok(Action) or Err(Error)
Result(tag, st, bytes, closure, message) ==
    [tag |-> tag, status |-> st, bytes |-> bytes, closure |-> closure, message |-> message]
ActEnd(st) == Result("End", st, <<>>, <<>>, None)
ActRedirect(st) == Result("Redirect", Some(st), <<>>, <<>>, None)
ActRender(out) == Result("Render", None, out, <<>>, None)
ActSend(body) == Result("Send", None, body, <<>>, None)
ActStream(closure) == Result("Stream", None, <<>>, closure, None)
ResErr(st, message) == Result("Err", Some(st), <<>>, <<>>, message)

\* process_handle_result as it would be if the Err arm left the response alone
process_handle_result_losing_error(response, result) ==
    CASE result.tag = "End" ->
           [response |-> IF is_some(result.status) THEN status(response, unwrap(result.status))
                         ELSE response,
            body |-> BodyEmpty]
      [] result.tag = "Redirect" ->
           [response |-> location(status(response, unwrap(result.status)), "/there"),
            body |-> BodyEmpty]
      [] result.tag = "Render" ->
           [response |-> IF is_none(response.headers.ContentType)
                         THEN content_type(response, "text/html") ELSE response,
            body |-> BodySome(Buffer_from(result.bytes))]
      [] result.tag = "Send" ->
           [response |-> response, body |-> BodySome(Buffer_from(result.bytes))]
      [] result.tag = "Stream" ->
           [response |-> set_streaming(response), body |-> BodyStreaming(result.closure)]
      [] OTHER ->
           [response |-> response, body |-> BodyEmpty]

\* process_handle_result: the response as updated, and the Body produced
process_handle_result(response, result) ==
    CASE result.tag = "End" ->
           [response |-> IF is_some(result.status) THEN status(response, unwrap(result.status))
                         ELSE response,
            body |-> BodyEmpty]
      [] result.tag = "Redirect" ->
           [response |-> location(status(response, unwrap(result.status)), "/there"),
            body |-> BodyEmpty]
      [] result.tag = "Render" ->
           [response |-> IF is_none(response.headers.ContentType)
                         THEN content_type(response, "text/html") ELSE response,
            body |-> BodySome(Buffer_from(result.bytes))]
      [] result.tag = "Send" ->
           [response |-> response, body |-> BodySome(Buffer_from(result.bytes))]
      [] result.tag = "Stream" ->
           [response |-> set_streaming(response), body |-> BodyStreaming(result.closure)]
      [] OTHER ->
           IF is_none(result.message)
           THEN [response |-> status(response, unwrap(result.status)), body |-> BodyEmpty]
           ELSE [response |-> content_type(status(response, unwrap(result.status)), "text/plain"),
                 body |-> BodySome(Buffer_from(into_bytes(unwrap(result.message))))]

\* ------------------------------------------------------------------------
\* The application: what the callback bound to the routes does.  It may set
\* the status and a Content-Length on the response before it returns its
\* result; a streaming closure writes chunks of the given lengths.
\* ------------------------------------------------------------------------
MaxChunkLen == 2    \* bytes in one chunk written by a streaming closure

AppStatuses == {StatusContinue, StatusNoContent, StatusNotModified, StatusNotFound}
Closures == UNION {[1..k -> 0..MaxChunkLen] : k \in 0..MaxChunks}
Results ==
    {ActEnd(None), ActEnd(Some(StatusNotFound)), ActRedirect(StatusFound),
     ActRender(<<60, 62>>), ActSend(<<>>), ActSend(<<7, 8>>),
     ResErr(StatusInternalServerError, None), ResErr(StatusInternalServerError, Some(MsgApp))}
    \cup {ActStream(c) : c \in Closures}
Apps == [set_status : {None} \cup {Some(st) : st \in AppStatuses},
         set_len : {None, Some(5)},
         result : Results]
\* The inputs the model explores: every request head with one plain
\* application, and every application with the plain request of each method.
BasicApps == {a \in Apps : /\ a.set_status = None /\ a.set_len = None
                           /\ a.result = ActSend(<<7, 8>>)}
PlainRequests == {r \in HttpRequests : /\ r.version = "Http11"
                                       /\ r.headers.TransferEncoding = None
                                       /\ r.headers.ContentLength = None}
Inputs ==
    {<<r, a>> \in HttpRequests \X BasicApps : r.uri_ok \/ r \in PlainRequests}
    \cup {<<r, a>> \in PlainRequests \X Apps : r.uri_ok /\ r.path = <<"a", "b">>}

\* the j-th byte of the i-th chunk a closure writes
ChunkBytes(i, n) == [j \in 1..n |-> 10 * i + j]

\* the callback run on a fresh response
run_callback(app) ==
    LET r0 == Response_new
        r1 == IF is_some(app.set_status) THEN status(r0, unwrap(app.set_status)) ELSE r0
        r2 == IF is_some(app.set_len) THEN response_len(r1, unwrap(app.set_len)) ELSE r1
    IN  process_handle_result(r2, app.result)

\* ------------------------------------------------------------------------
\* State of one connection served by handler.rs
\* ------------------------------------------------------------------------
VARIABLES
    httpReq,          \* the request head hyper parsed (input)
    app,              \* the callback the routes are bound to (input)
    request,          \* EdgeHandler.request: Option<Request>
    is_head_request,  \* EdgeHandler.is_head_request
    buffer,           \* EdgeHandler.buffer: Option<Buffer>
    stealer,          \* EdgeHandler.stealer is Some
    streaming,        \* EdgeHandler.streaming
    queue,            \* the chase-lev deque of Reply: pushed at the end, stolen at the head
    next,             \* the directive the handler returned last (hyper's Next)
    writing,          \* hyper's write side: "Init" until on_response returned, then "Body"
    hpc,              \* where the reactor thread is inside on_response's loop
    res,              \* the HttpResponse head on_response filled in: Option
    transport,        \* body bytes the Encoder accepted, in order
    pending,          \* Control::ready messages sent and not yet processed by the event loop
    wpc,              \* where the pool thread is in the job callback() queued
    req,              \* the Request moved into the job: Option
    response,         \* the job's Response: Option
    job_body,         \* the Body process_handle_result produced: Option
    written,          \* chunks the closure has handed to Stream::write so far
    appended,         \* history: bytes of every chunk pushed by Stream::write, in order
    notifies,         \* history: calls of notify() by the job
    sentinels,        \* history: runs of Stream::drop
    dispatched,       \* history: invocations of the application callback
    checked,          \* history: what check_request returned: Option
    attached,         \* history: the body set_body attached to the request: Option
    read_failed,      \* history: Buffer::read_from returned an error
    failed,           \* history: a transport write failed (WriteZero or another error)
    wrote_zero        \* history: the transport accepted zero bytes of a body

handlerVars == <<request, is_head_request, buffer, stealer, streaming>>
hyperVars == <<next, writing, hpc, res, transport, pending>>
workerVars == <<wpc, req, response, job_body, written>>
historyVars == <<appended, notifies, sentinels, dispatched, checked, attached, read_failed,
                 failed, wrote_zero>>
edgeVars == <<httpReq, app, handlerVars, queue, hyperVars, workerVars, historyVars>>

\* response.rs: one Resp behind its ResponseHolder, and the Response handle
\* the application owns
VARIABLES
    ended_or_notify,  \* Resp.ended_or_notify: AtomicBool
    resp,             \* Resp.status, Resp.headers, Resp.body
    resp_deque,       \* Resp.worker / Resp.stealer: Option of the deque's content
    handle,           \* where the application is with its Response handle
    can_writes,       \* history: what each call of can_write returned, in order
    done_calls,       \* history: calls of Resp::done
    done_notifies,    \* history: calls of notify() made by Resp::done
    ctrl_ready,       \* history: calls of ctrl.ready(Next::write())
    appends,          \* history: calls of Response<Streaming>::append
    popped,           \* history: the buffers ResponseHolder::pop returned, in order
    called            \* history: the method of Response<Fresh> called last, and its status

respVars == <<ended_or_notify, resp, resp_deque, handle, can_writes, done_calls,
              done_notifies, ctrl_ready, appends, popped, called>>
\* router.rs: the router the application is filling, the routers it has
\* mounted, and one request looked up in them
VARIABLES
    router,           \* the Router being built: Option<RouterAny>
    routers,          \* the mounted routers, in mount order (EdgeHandler.routers)
    registered,       \* callbacks registered so far (each callback is its number)
    lookup            \* the request looked up and what was found: Option

routerVars == <<router, routers, registered, lookup>>
\* buffer.rs: one Buffer, read into from a reader
VARIABLES
    the_buffer,              \* the Buffer
    supplied,         \* history: the bytes the reader handed over, in order
    outcome,          \* what the last read_from / write_to returned, else "none"
    last_io,          \* history: the transport's last answer
    calls,            \* history: operations called on the buffer
    ops,              \* history: the operations called, in order
    prev,             \* history: the buffer before the last operation
    sink,             \* history: the bytes the writer accepted in this run of write_to
    original,         \* history: the buffer when this run of write_to began
    took              \* what the last take returned

bufVars == <<the_buffer, supplied, outcome, last_io, calls, ops, prev, sink, original, took>>
\* lib.rs: the handler that gets its response through a channel
VARIABLES
    chan_mode,        \* where the callback wrote: "inline", or "thread" (written later)
    chan_resp,        \* the Resp the Response carries: Option
    rx,               \* the mpsc channel of Resp: sent at the end, received at the head
    notify_flag,      \* Response.notify: Arc<AtomicBool>
    cpc,              \* where the reactor thread is in EdgeHandler::callback
    tpc,              \* where the other thread is in Response::write
    chan_next,        \* the directive the handler returned last
    self_resp,        \* EdgeHandler.resp: Option<Resp>
    chan_ready,       \* Control::ready messages the event loop has not processed
    chan_res          \* the head on_response filled in: Option

chanVars == <<chan_mode, chan_resp, rx, notify_flag, cpc, tpc, chan_next, self_resp,
              chan_ready, chan_res>>
pureVars == <<routerVars, bufVars, chanVars>>
vars == <<edgeVars, respVars, pureVars>>

\* a buffer nothing was read into yet
Buffer_idle ==
    /\ the_buffer = Buffer_new
    /\ supplied = <<>>
    /\ outcome = "none"
    /\ last_io = "none"
    /\ calls = 0
    /\ ops = <<>>
    /\ prev = Buffer_new
    /\ sink = <<>>
    /\ original = Buffer_new
    /\ took = None

\* no router built or mounted yet, nothing looked up
Edge_new ==
    /\ router = None
    /\ routers = <<>>
    /\ registered = 0
    /\ lookup = None

\* HandlerFactory::create of lib.rs: the channel is empty, notify is false
Channel_new ==
    /\ chan_mode = "none"
    /\ chan_resp = None
    /\ rx = <<>>
    /\ notify_flag = FALSE
    /\ cpc = "create"
    /\ tpc = "none"
    /\ chan_next = "init"
    /\ self_resp = None
    /\ chan_ready = 0
    /\ chan_res = None

\* Resp::new, ResponseHolder::new, ResponseHolder::new_response
ResponseHolder_new ==
    /\ ended_or_notify = FALSE
    /\ resp = [status |-> StatusOk, headers |-> NoHeaders, body |-> Buffer_new]
    /\ resp_deque = None
    /\ handle = "fresh"
    /\ can_writes = <<>>
    /\ done_calls = 0
    /\ done_notifies = 0
    /\ ctrl_ready = 0
    /\ appends = 0
    /\ popped = <<>>
    /\ called = [method |-> "none", status |-> None]

Init ==
    /\ \E input \in Inputs : httpReq = input[1] /\ app = input[2]
    /\ request = None
    /\ is_head_request = FALSE
    /\ buffer = None
    /\ stealer = FALSE
    /\ streaming = FALSE
    /\ queue = <<>>
    /\ next = "init"
    /\ writing = "Init"
    /\ hpc = "idle"
    /\ res = None
    /\ transport = <<>>
    /\ pending = 0
    /\ wpc = "none"
    /\ req = None
    /\ response = None
    /\ job_body = None
    /\ written = 0
    /\ appended = <<>>
    /\ notifies = 0
    /\ sentinels = 0
    /\ dispatched = 0
    /\ checked = None
    /\ attached = None
    /\ read_failed = FALSE
    /\ failed = FALSE
    /\ wrote_zero = FALSE
    /\ ResponseHolder_new
    /\ Edge_new
    /\ Buffer_idle
    /\ Channel_new

\* ------------------------------------------------------------------------
\* handler.rs, reactor thread
\* ------------------------------------------------------------------------
\* EdgeHandler::callback on the request it takes out of self.request
callback(taken) ==
    LET result == first_callback(Routers, taken) IN
    /\ stealer' = TRUE
    /\ request' = None
    /\ IF is_some(result)
       THEN /\ req' = Some(set_params(taken, unwrap(result).params))
            /\ wpc' = "queued"
            /\ queue' = <<>>
            /\ next' = "wait"
       ELSE /\ queue' = <<Headers(content_type(status(Response_new, StatusNotFound), "text/plain")),
                          Body(Buffer_from(not_found_bytes(taken.path)))>>
            /\ next' = "write"
            /\ UNCHANGED <<req, wpc>>

\* EdgeHandler::bad_request
bad_request(message) ==
    /\ stealer' = TRUE
    /\ queue' = <<Headers(content_type(status(Response_new, StatusBadRequest),
                                       "text/plain; charset=UTF-8")),
                  Body(Buffer_from(into_bytes(message)))>>
    /\ next' = "write"

\* Handler::on_request
on_request ==
    /\ UNCHANGED <<respVars, pureVars>>
    /\ next = "init"
    /\ IF httpReq.uri_ok
       THEN LET r == request_new(httpReq)
                result == check_request(r, buffer)
            IN  /\ is_head_request' = (r.method = "HEAD")
                /\ checked' = Some(result)
                /\ buffer' = result.buffer
                /\ IF ~result.ok
                   THEN /\ bad_request(result.msg)
                        /\ request' = Some(r)
                        /\ UNCHANGED <<req, wpc>>
                   ELSE IF ~result.read
                   THEN callback(r)
                   ELSE /\ request' = Some(r)
                        /\ next' = "read"
                        /\ UNCHANGED <<stealer, queue, req, wpc>>
       ELSE /\ bad_request(MsgUrl)
            /\ UNCHANGED <<request, is_head_request, buffer, checked, req, wpc>>
    /\ UNCHANGED <<httpReq, app, streaming, writing, hpc, res, transport, pending,
                   response, job_body, written,
                   appended, notifies, sentinels, dispatched, attached, read_failed, failed,
                   wrote_zero>>

\* Handler::on_request_readable; script is what the Decoder answers
on_request_readable(script) ==
    /\ UNCHANGED <<respVars, pureVars>>
    /\ next = "read"
    /\ IF is_none(buffer)
       THEN /\ next' = "panic"
            /\ UNCHANGED <<request, buffer, stealer, queue, req, wpc, attached, read_failed>>
       ELSE LET r == read_from(unwrap(buffer), script) IN
            /\ r.result /= "stuck"
            /\ r.rest = <<>>
            /\ read_failed' = (r.result = "err")
            /\ IF r.result = "more"
               THEN /\ buffer' = Some(r.buffer)
                    /\ next' = "read"
                    /\ UNCHANGED <<request, stealer, queue, req, wpc, attached>>
               ELSE /\ buffer' = None
                    /\ attached' = Some(r.buffer)
                    /\ callback(unwrap(set_body(request, Some(r.buffer))))
    /\ UNCHANGED <<httpReq, app, is_head_request, streaming, writing, hpc, res, transport,
                   pending, response, job_body, written,
                   appended, notifies, sentinels, dispatched, checked, failed, wrote_zero>>

\* steal as it would be if the Stealer took the element the Worker pushed last
steal_newest(q) == IF q = <<>> THEN [data |-> None, rest |-> q]
                   ELSE [data |-> Some(q[Len(q)]), rest |-> SubSeq(q, 1, Len(q) - 1)]

\* steal as it would be if the Stealer passed over the oldest element
steal_second(q) ==
    IF q = <<>> THEN [data |-> None, rest |-> q]
    ELSE IF Len(q) = 1 THEN [data |-> Some(Head(q)), rest |-> <<>>]
    ELSE [data |-> Some(q[2]), rest |-> <<q[1]>> \o SubSeq(q, 3, Len(q))]

\* Stealer::steal on the deque the Worker pushes to: Steal::Empty, or
\* Steal::Data of the oldest element, which leaves the deque
steal(q) == IF q = <<>> THEN [data |-> None, rest |-> q]
            ELSE [data |-> Some(Head(q)), rest |-> Tail(q)]

\* no_body as it would be without the HEAD test, and without the 304 test
no_body_ignoring_head(st, head_request) ==
    \/ is_informational(st)
    \/ st = StatusNoContent
    \/ st = StatusNotModified
no_body_without_304(st, head_request) ==
    \/ is_informational(st)
    \/ st = StatusNoContent
    \/ head_request

\* the test of on_response, lines 319-321: this response gets no body
no_body(st, head_request) ==
    \/ is_informational(st)
    \/ st = StatusNoContent
    \/ st = StatusNotModified
    \/ head_request

\* Handler::on_response, one turn of its loop
on_response ==
    /\ UNCHANGED <<respVars, pureVars>>
    /\ \/ hpc = "idle" /\ next = "write" /\ writing = "Init"
       \/ hpc = "on_response"
    /\ IF ~stealer
       THEN /\ next' = "panic" /\ hpc' = "idle"
            /\ UNCHANGED <<queue, streaming, res, buffer, writing>>
       ELSE LET stolen == steal(queue).data IN
         IF is_none(stolen)
         THEN /\ next' = IF streaming THEN "wait" ELSE "end"
              /\ hpc' = "idle"
              /\ writing' = "Body"
              /\ UNCHANGED <<queue, streaming, res, buffer>>
         ELSE LET reply == unwrap(stolen) IN
              /\ queue' = steal(queue).rest
              /\ IF reply.kind = "Headers"
                 THEN LET r == unwrap(reply.response)
                          suppress == no_body(r.status, is_head_request)
                      IN  /\ streaming' = is_streaming(r)
                          /\ res' = Some([status |-> r.status,
                                          headers |-> IF suppress
                                                      THEN [r.headers EXCEPT !.ContentLength = None]
                                                      ELSE r.headers])
                          /\ IF suppress
                             THEN next' = "end" /\ hpc' = "idle" /\ writing' = "Body"
                             ELSE next' = next /\ hpc' = "on_response" /\ writing' = writing
                          /\ UNCHANGED buffer
                 ELSE /\ buffer' = reply.body
                      /\ next' = "write"
                      /\ hpc' = "idle"
                      /\ writing' = "Body"
                      /\ UNCHANGED <<streaming, res>>
    /\ UNCHANGED <<httpReq, app, request, is_head_request, stealer, transport, pending,
                   workerVars, historyVars>>

\* Handler::on_response_writable; script is what the Encoder answers
on_response_writable(script) ==
    /\ UNCHANGED <<respVars, pureVars>>
    /\ hpc = "idle" /\ next = "write" /\ writing = "Body"
    /\ IF streaming
       THEN LET stolen == IF is_none(buffer) THEN steal(queue).data ELSE None
                unexpected == is_some(stolen) /\ unwrap(stolen).kind /= "Body"
                buf == IF is_some(buffer) THEN buffer
                       ELSE IF is_some(stolen) /\ ~unexpected THEN unwrap(stolen).body
                       ELSE None
            IN  /\ queue' = IF is_none(buffer) THEN steal(queue).rest ELSE queue
                /\ IF is_none(buffer) /\ (~stealer \/ unexpected)
                   THEN /\ next' = "panic" /\ script = <<>>
                        /\ UNCHANGED <<buffer, transport, failed, wrote_zero>>
                   ELSE IF is_none(buf)
                   THEN /\ next' = "wait" /\ script = <<>>
                        /\ buffer' = buf
                        /\ UNCHANGED <<transport, failed, wrote_zero>>
                   ELSE IF is_empty(unwrap(buf))
                   THEN /\ next' = "end" /\ script = <<>>
                        /\ buffer' = buf
                        /\ UNCHANGED <<transport, failed, wrote_zero>>
                   ELSE LET w == write_to(unwrap(buf), script) IN
                        /\ w.result /= "stuck"
                        /\ w.rest = <<>>
                        /\ transport' = transport \o w.out
                        /\ buffer' = IF w.result = "done" THEN None ELSE Some(w.buffer)
                        /\ next' = IF w.result = "err" THEN "remove" ELSE "write"
                        /\ failed' = (failed \/ w.result = "err")
                        /\ wrote_zero' = (wrote_zero \/ \E i \in 1..Len(script) : script[i].kind = "zero")
       ELSE IF is_none(buffer)
       THEN /\ next' = "panic" /\ script = <<>>
            /\ UNCHANGED <<queue, buffer, transport, failed, wrote_zero>>
       ELSE LET w == write_to(unwrap(buffer), script) IN
            /\ w.result /= "stuck"
            /\ w.rest = <<>>
            /\ transport' = transport \o w.out
            /\ buffer' = Some(w.buffer)
            /\ next' = CASE w.result = "more" -> "write"
                         [] w.result = "done" -> "end"
                         [] OTHER -> "remove"
            /\ failed' = (failed \/ w.result = "err")
            /\ wrote_zero' = (wrote_zero \/ \E i \in 1..Len(script) : script[i].kind = "zero")
            /\ UNCHANGED queue
    /\ UNCHANGED <<httpReq, app, request, is_head_request, stealer, streaming,
                   writing, hpc, res, pending, workerVars,
                   appended, notifies, sentinels, dispatched, checked, attached, read_failed>>

\* The event loop processes one Control::ready(Next::write()) message: a
\* handler that waits is scheduled for writing; otherwise nothing changes.
\* ready as it would be if the event loop woke a waiting handler unasked
ready_unasked ==
    /\ UNCHANGED <<respVars, pureVars>>
    /\ hpc = "idle"
    /\ pending' = IF pending > 0 THEN pending - 1 ELSE 0
    /\ next' = IF next = "wait" THEN "write" ELSE next
    /\ UNCHANGED <<httpReq, app, handlerVars, queue, writing, hpc, res, transport,
                   workerVars, historyVars>>
ready ==
    /\ UNCHANGED <<respVars, pureVars>>
    /\ hpc = "idle"
    /\ pending > 0
    /\ pending' = pending - 1
    /\ next' = IF next = "wait" THEN "write" ELSE next
    /\ UNCHANGED <<httpReq, app, handlerVars, queue, writing, hpc, res, transport,
                   workerVars, historyVars>>

\* ------------------------------------------------------------------------
\* handler.rs, the job callback() hands to the pool
\* ------------------------------------------------------------------------
\* notify as it would be if the message to the event loop were lost
notify_lost ==
    /\ pending' = pending
    /\ notifies' = notifies + 1

\* notify(&ctrl)
notify ==
    /\ pending' = pending + 1
    /\ notifies' = notifies + 1

\* the job up to process_handle_result: run the callback, build the Body
job_run ==
    /\ UNCHANGED <<respVars, pureVars>>
    /\ wpc = "queued"
    /\ LET out == run_callback(app) IN
       /\ response' = Some(IF out.body.kind = "Some"
                           THEN response_len(out.response, len(unwrap(out.body.buffer)))
                           ELSE out.response)
       /\ job_body' = Some(out.body)
    /\ dispatched' = dispatched + 1
    /\ wpc' = "push_headers"
    /\ UNCHANGED <<httpReq, app, handlerVars, queue, hyperVars, req, written,
                   appended, notifies, sentinels, checked, attached, read_failed, failed,
                   wrote_zero>>

\* worker.push(Reply::Headers(response))
job_push_headers ==
    /\ UNCHANGED <<respVars, pureVars>>
    /\ wpc = "push_headers"
    /\ queue' = Append(queue, Headers(unwrap(response)))
    /\ response' = None
    /\ wpc' = CASE unwrap(job_body).kind = "Empty" -> "notify"
                [] unwrap(job_body).kind = "Some" -> "push_body"
                [] OTHER -> "notify_headers"
    /\ UNCHANGED <<httpReq, app, handlerVars, hyperVars, req, job_body, written, historyVars>>

\* worker.push(Reply::Body(body))
job_push_body ==
    /\ UNCHANGED <<respVars, pureVars>>
    /\ wpc = "push_body"
    /\ queue' = Append(queue, Body(unwrap(unwrap(job_body).buffer)))
    /\ job_body' = Some([unwrap(job_body) EXCEPT !.buffer = None])
    /\ wpc' = "notify"
    /\ UNCHANGED <<httpReq, app, handlerVars, hyperVars, req, response, written,
                   historyVars>>

\* notify(&ctrl) of the Empty, Some and Streaming arms, and the one that
\* ends Stream::write and Stream::drop
\* job_notify as it would be if a branch of the job forgot its notify
job_notify_skipped ==
    /\ UNCHANGED <<respVars, pureVars>>
    /\ wpc \in {"notify", "notify_headers", "notify_chunk", "notify_drop"}
    /\ UNCHANGED <<pending, notifies>>
    /\ wpc' = IF wpc \in {"notify", "notify_drop"} THEN "done" ELSE "closure"
    /\ req' = IF wpc \in {"notify", "notify_drop"} THEN None ELSE req
    /\ UNCHANGED <<httpReq, app, handlerVars, queue, next, writing, hpc, res, transport,
                   response, job_body, written,
                   appended, sentinels, dispatched, checked, attached, read_failed, failed,
                   wrote_zero>>
job_notify ==
    /\ UNCHANGED <<respVars, pureVars>>
    /\ wpc \in {"notify", "notify_headers", "notify_chunk", "notify_drop"}
    /\ notify
    /\ wpc' = IF wpc \in {"notify", "notify_drop"} THEN "done" ELSE "closure"
    /\ req' = IF wpc \in {"notify", "notify_drop"} THEN None ELSE req
    /\ UNCHANGED <<httpReq, app, handlerVars, queue, next, writing, hpc, res, transport,
                   response, job_body, written,
                   appended, sentinels, dispatched, checked, attached, read_failed, failed,
                   wrote_zero>>

\* Stream::write: the closure hands its next chunk to the stream
Stream_write ==
    /\ UNCHANGED <<respVars, pureVars>>
    /\ wpc = "closure"
    /\ written < Len(unwrap(job_body).closure)
    /\ LET buf == ChunkBytes(written + 1, unwrap(job_body).closure[written + 1]) IN
       /\ queue' = Append(queue, Body(Buffer_from(buf)))
       /\ appended' = Append(appended, buf)
    /\ written' = written + 1
    /\ wpc' = "notify_chunk"
    /\ UNCHANGED <<httpReq, app, handlerVars, hyperVars, req, response, job_body,
                   notifies, sentinels, dispatched, checked, attached, read_failed, failed,
                   wrote_zero>>

\* Drop for Stream, when the closure has returned
Stream_drop ==
    /\ UNCHANGED <<respVars, pureVars>>
    /\ wpc = "closure"
    /\ written = Len(unwrap(job_body).closure)
    /\ queue' = Append(queue, Body(Buffer_from(<<>>)))
    /\ sentinels' = sentinels + 1
    /\ wpc' = "notify_drop"
    /\ UNCHANGED <<httpReq, app, handlerVars, hyperVars, req, response, job_body, written,
                   appended, notifies, dispatched, checked, attached, read_failed, failed,
                   wrote_zero>>

Writable == \E script \in IoScripts \cup {<<>>} : on_response_writable(script)
Readable == \E script \in IoScripts : on_request_readable(script)

Next ==
    \/ on_request
    \/ Readable
    \/ on_response
    \/ Writable
    \/ ready
    \/ job_run
    \/ job_push_headers
    \/ job_push_body
    \/ job_notify
    \/ Stream_write
    \/ Stream_drop

Spec == Init /\ [][Next]_vars

\* the same behaviours, with the scheduling the reactor and the pool give:
\* a queued job runs and every step of it is taken, every Control message
\* is processed, and a handler that asked for on_response or for
\* on_response_writable is called until it returns something else
LiveSpec ==
    /\ Spec
    /\ WF_vars(job_run) /\ WF_vars(job_push_headers) /\ WF_vars(job_push_body)
    /\ WF_vars(job_notify) /\ WF_vars(Stream_write) /\ WF_vars(Stream_drop)
    /\ WF_vars(ready) /\ WF_vars(on_response) /\ WF_vars(Writable)

\* ------------------------------------------------------------------------
\* response.rs: Resp, ResponseHolder and Response
\* ------------------------------------------------------------------------
MaxCanWrite == 2

\* what the application sends, and where it redirects to
Contents == {<<>>, <<7, 8>>}
RedirectUrl == "/next"

\* compare_and_swap as it would be if it only loaded the flag
compare_and_swap_load(current, expected, new) ==
    [previous |-> current, value |-> current]

\* AtomicBool::compare_and_swap(current, new): one atomic step that stores
\* new when the flag holds current, and answers the previous value
compare_and_swap(current, expected, new) ==
    [previous |-> current, value |-> IF current = expected THEN new ELSE current]

\* Resp::can_write: the flag after the call, and what the call returns
Resp_can_write(flag) ==
    LET cas == compare_and_swap(flag, FALSE, TRUE)
    IN [flag |-> cas.value, result |-> IF cas.previous THEN TRUE ELSE FALSE]

\* Resp::done up to the call of notify: the flag after it, and whether
\* notify is called
Resp_done(flag) ==
    LET cas == compare_and_swap(flag, FALSE, TRUE)
    IN [flag |-> cas.value, notify |-> cas.previous]

\* Resp::send, Buffer::send
Resp_send(r, content) == [r EXCEPT !.body.content = VecOf(content)]

\* where the application goes on once the fresh handle is dropped: stream()
\* returns the streaming handle, everything else consumed the only handle
AfterFresh(d) == IF is_some(d) THEN "streaming" ELSE "gone"

\* Response<Fresh>::status
Response_status(st) ==
    /\ handle = "fresh"
    /\ called' = [method |-> "status", status |-> Some(st)]
    /\ resp' = status(resp, st)
    /\ UNCHANGED <<edgeVars, pureVars, ended_or_notify, resp_deque, handle, can_writes, done_calls,
                   done_notifies, ctrl_ready, appends, popped>>

\* Response<Fresh>::send, up to the drop of self
Response_send(content) ==
    /\ handle = "fresh"
    /\ called' = [method |-> "send", status |-> None]
    /\ LET sent == Resp_send(resp, content)
       IN resp' = response_len(sent, len(sent.body))
    /\ handle' = "drop"
    /\ UNCHANGED <<edgeVars, pureVars, ended_or_notify, resp_deque, can_writes, done_calls,
                   done_notifies, ctrl_ready, appends, popped>>

\* Response<Fresh>::end, up to the drop of self
Response_end(st) ==
    /\ handle = "fresh"
    /\ called' = [method |-> "end", status |-> Some(st)]
    /\ resp' = response_len(status(resp, st), 0)
    /\ handle' = "drop"
    /\ UNCHANGED <<edgeVars, pureVars, ended_or_notify, resp_deque, can_writes, done_calls,
                   done_notifies, ctrl_ready, appends, popped>>

\* Response<Fresh>::redirect, up to the drop of self
Response_redirect(st) ==
    /\ handle = "fresh"
    /\ called' = [method |-> "redirect", status |-> st]
    /\ resp' = response_len(status(location(resp, RedirectUrl),
                                   IF is_some(st) THEN unwrap(st) ELSE StatusFound), 0)
    /\ handle' = "drop"
    /\ UNCHANGED <<edgeVars, pureVars, ended_or_notify, resp_deque, can_writes, done_calls,
                   done_notifies, ctrl_ready, appends, popped>>

\* Response<Fresh>::stream, up to the drop of self: Resp::init_deque
Response_stream ==
    /\ handle = "fresh"
    /\ called' = [method |-> "stream", status |-> None]
    /\ resp_deque' = Some(<<>>)
    /\ handle' = "drop"
    /\ UNCHANGED <<edgeVars, pureVars, ended_or_notify, resp, can_writes, done_calls,
                   done_notifies, ctrl_ready, appends, popped>>

\* Response<Streaming>::append, Resp::append up to the call of notify
Response_append(n) ==
    /\ handle = "streaming"
    /\ appends < MaxChunks
    /\ resp_deque' = Some(Append(unwrap(resp_deque), Buffer_from(ChunkBytes(appends + 1, n))))
    /\ appends' = appends + 1
    /\ handle' = "append_notify"
    /\ UNCHANGED <<edgeVars, pureVars, ended_or_notify, resp, can_writes, done_calls,
                   done_notifies, ctrl_ready, popped, called>>

\* Drop for Response as it would be without the test of self.streaming
Response_drop_done_always ==
    /\ handle \in {"fresh", "drop", "streaming"}
    /\ LET d == Resp_done(ended_or_notify) IN
       /\ ended_or_notify' = d.flag
       /\ done_calls' = done_calls + 1
       /\ handle' = IF d.notify THEN "done_notify"
                    ELSE IF handle = "streaming" THEN "gone" ELSE AfterFresh(resp_deque)
       /\ UNCHANGED resp_deque
    /\ UNCHANGED <<edgeVars, pureVars, resp, can_writes, done_notifies, ctrl_ready, appends, popped, called>>

\* Drop for Response, up to the call of notify: the fresh handle is dropped
\* untouched ("fresh") or at the end of the method that consumed it ("drop"),
\* the streaming handle whenever the application lets go of it
Response_drop ==
    /\ handle \in {"fresh", "drop", "streaming"}
    /\ IF handle = "streaming"
       THEN /\ resp_deque' = Some(Append(unwrap(resp_deque), Buffer_from(<<>>)))
            /\ handle' = "sentinel_notify"
            /\ UNCHANGED <<ended_or_notify, done_calls>>
       ELSE LET d == Resp_done(ended_or_notify) IN
            /\ ended_or_notify' = d.flag
            /\ done_calls' = done_calls + 1
            /\ handle' = IF d.notify THEN "done_notify" ELSE AfterFresh(resp_deque)
            /\ UNCHANGED resp_deque
    /\ UNCHANGED <<edgeVars, pureVars, resp, can_writes, done_notifies, ctrl_ready, appends, popped, called>>

\* Resp::notify, called by done and by append
Resp_notify ==
    /\ handle \in {"done_notify", "append_notify", "sentinel_notify"}
    /\ ctrl_ready' = ctrl_ready + 1
    /\ done_notifies' = IF handle = "done_notify" THEN done_notifies + 1 ELSE done_notifies
    /\ handle' = CASE handle = "done_notify" -> AfterFresh(resp_deque)
                   [] handle = "append_notify" -> "streaming"
                   [] handle = "sentinel_notify" -> "gone"
    /\ UNCHANGED <<edgeVars, pureVars, ended_or_notify, resp, resp_deque, can_writes, done_calls,
                   appends, popped, called>>

\* ResponseHolder::can_write, called by the I/O side
ResponseHolder_can_write ==
    /\ Len(can_writes) < MaxCanWrite
    /\ LET c == Resp_can_write(ended_or_notify) IN
       /\ ended_or_notify' = c.flag
       /\ can_writes' = Append(can_writes, c.result)
    /\ UNCHANGED <<edgeVars, pureVars, resp, resp_deque, handle, done_calls, done_notifies,
                   ctrl_ready, appends, popped, called>>

\* ResponseHolder::pop, called by the I/O side once the response streams
\* (the stealer is unwrapped)
ResponseHolder_pop ==
    /\ is_some(resp_deque)
    /\ LET stolen == steal(unwrap(resp_deque)) IN
       /\ is_some(stolen.data)
       /\ resp_deque' = Some(stolen.rest)
       /\ popped' = Append(popped, unwrap(stolen.data))
    /\ UNCHANGED <<edgeVars, pureVars, ended_or_notify, resp, handle, can_writes, done_calls,
                   done_notifies, ctrl_ready, appends, called>>

Status == \E st \in AppStatuses : Response_status(st)
Send == \E content \in Contents : Response_send(content)
End == \E st \in AppStatuses \cup {StatusOk} : Response_end(st)
Redirect == \E st \in {None, Some(StatusNotModified)} : Response_redirect(st)
ResponseAppend == \E n \in 0..MaxChunkLen : Response_append(n)

NextResp ==
    \/ Status
    \/ Send
    \/ End
    \/ Redirect
    \/ Response_stream
    \/ ResponseAppend
    \/ Response_drop
    \/ Resp_notify
    \/ ResponseHolder_can_write
    \/ ResponseHolder_pop

\* the response-holder variant on its own: the handler of handler.rs stays
\* in its initial state, on one request
InitResp ==
    /\ Init
    /\ httpReq = CHOOSE r \in PlainRequests : r.method = "GET" /\ r.uri_ok
    /\ app = CHOOSE a \in BasicApps : TRUE

SpecResp == InitResp /\ [][NextResp]_vars

\* ------------------------------------------------------------------------
\* router.rs: building, mounting and searching routers.  Route patterns,
\* prefixes and path components are strings, written as sequences of
\* characters.
\* ------------------------------------------------------------------------
MaxRouters == 2     \* routers the application mounts
MaxRoutes == 2      \* routes it registers on one router
MaxPath == 2        \* path components of the request looked up

RoutePatterns == {<<"/", "a">>, <<"/", "a", "/", "b">>, <<"/", "a", "/", ":", "x">>,
                  <<"/", ":", "y", "/", "b">>}
Prefixes == {<<"/">>, <<"/", "a">>}
Components == {<<"a">>, <<"b">>}
LookupPaths == UNION {[1..k -> Components] : k \in 1..MaxPath}
LookupMethods == {"GET", "POST"}

\* str::split('/'): the pieces between the separators (one more than the
\* separators)
RECURSIVE split(_, _, _)
split(str, sep, piece) ==
    IF str = <<>> THEN <<piece>>
    ELSE IF Head(str) = sep THEN <<piece>> \o split(Tail(str), sep, <<>>)
    ELSE split(Tail(str), sep, Append(piece, Head(str)))

\* get_segments: Err for an empty pattern or one without a leading slash
get_segments(from) ==
    IF Len(from) = 0 THEN [ok |-> FALSE, segments |-> <<>>]
    ELSE IF from[1] /= "/" THEN [ok |-> FALSE, segments |-> <<>>]
    ELSE LET pieces == split(Tail(from), "/", <<>>)
         IN  [ok |-> TRUE,
              segments |-> [i \in 1..Len(pieces) |->
                              IF Len(pieces[i]) > 0 /\ pieces[i][1] = ":"
                              THEN Variable(Tail(pieces[i]))
                              ELSE Fixed(pieces[i])]]

\* Segment::is_empty
Segment_is_empty(segment) == segment.fixed /\ Len(segment.s) = 0

\* Route::new(path, callback).unwrap()
Route_new(from, cb) == [segments |-> get_segments(from).segments, callback |-> cb]

\* RouterAny::new
RouterAny_new == [prefix |-> <<>>, routes |-> [m \in {} |-> <<>>]]

\* Router::insert_callback: routes.entry(method).or_insert(Vec::new()).push(route)
insert_callback(r, method, path, cb) ==
    LET old == IF method \in DOMAIN r.routes THEN r.routes[method] ELSE <<>>
    IN  [r EXCEPT !.routes = [m \in DOMAIN r.routes \cup {method} |->
                                IF m = method THEN Append(old, Route_new(path, cb))
                                ELSE r.routes[m]]]

\* RouterAny::set_prefix
set_prefix(r, prefix) ==
    LET segments == get_segments(prefix).segments
    IN  IF ~(Len(segments) = 1 /\ Segment_is_empty(segments[1]))
        THEN [r EXCEPT !.prefix = segments] ELSE r

\* Router::new
Router_new ==
    /\ router = None /\ lookup = None
    /\ Len(routers) < MaxRouters
    /\ router' = Some(RouterAny_new)
    /\ UNCHANGED <<edgeVars, respVars, bufVars, chanVars, routers, registered, lookup>>

\* Router::get(path, callback)
Router_get(path) ==
    /\ is_some(router)
    /\ get_segments(path).ok
    /\ IF "GET" \in DOMAIN unwrap(router).routes
       THEN Len(unwrap(router).routes["GET"]) < MaxRoutes ELSE TRUE
    /\ router' = Some(insert_callback(unwrap(router), "GET", path, registered + 1))
    /\ registered' = registered + 1
    /\ UNCHANGED <<edgeVars, respVars, bufVars, chanVars, routers, lookup>>

\* Edge::mount(prefix, router): set_prefix, then the router joins the list
Edge_mount(prefix) ==
    /\ is_some(router)
    /\ get_segments(prefix).ok
    /\ routers' = Append(routers, set_prefix(unwrap(router), prefix))
    /\ router' = None
    /\ UNCHANGED <<edgeVars, respVars, bufVars, chanVars, registered, lookup>>

\* the routing step of EdgeHandler::callback on one request
Edge_route(method, path) ==
    /\ router = None /\ lookup = None
    /\ LET r == [method |-> method, path |-> path] IN
       lookup' = Some([req |-> r, found |-> first_callback(routers, r)])
    /\ UNCHANGED <<edgeVars, respVars, bufVars, chanVars, router, routers, registered>>

Get == \E path \in RoutePatterns : Router_get(path)
Mount == \E prefix \in Prefixes : Edge_mount(prefix)
Route == \E method \in LookupMethods, path \in LookupPaths : Edge_route(method, path)

NextRouter ==
    \/ Router_new
    \/ Get
    \/ Mount
    \/ Route

\* the routers on their own: the handler and the response stay in their
\* initial state
SpecRouter == InitResp /\ [][NextRouter]_vars

\* ------------------------------------------------------------------------
\* buffer.rs: a Buffer on its own, read into call after call
\* ------------------------------------------------------------------------
MaxCalls == 4       \* operations called on one buffer
MaxDoublings == 1   \* capacities reach DEFAULT_BUF_SIZE * 2^MaxDoublings before read_from

\* the buffers reading starts from: growable and empty, fixed, or growable
\* around a vector
StartBuffers ==
    {Buffer_new} \cup {Buffer_new_fixed(c) : c \in 1..MaxBody}
                 \cup {Buffer_from([i \in 1..n |-> 6 + i]) : n \in 1..(MaxBody + 1)}

\* what send is called with, and set_capacity
SendContents == {<<>>, <<9>>}
Capacities == {0} \cup {DEFAULT_BUF_SIZE * 2^k : k \in 0..MaxDoublings}

\* the bytes the reader hands over while it gives the answers of script
RECURSIVE ScriptBytes(_)
ScriptBytes(script) ==
    IF script = <<>> THEN 0
    ELSE (IF Head(script).kind = "data" THEN Head(script).n ELSE 0)
         + ScriptBytes(Tail(script))

\* Buffer::new, Buffer::new_fixed, From<Vec<u8>>
Buffer_create(b) ==
    /\ calls = 0 /\ outcome = "none" /\ the_buffer = Buffer_new
    /\ b /= Buffer_new
    /\ the_buffer' = b
    /\ UNCHANGED <<edgeVars, respVars, routerVars, chanVars, supplied, outcome, last_io, calls,
                   ops, prev, sink, original, took>>

\* the last operation called, "new" when none was
LastOp == IF ops = <<>> THEN "new" ELSE ops[Len(ops)]

\* what every operation records
Called(op) ==
    /\ calls < MaxCalls
    /\ outcome /= "panic"
    /\ calls' = calls + 1
    /\ ops' = Append(ops, op)
    /\ prev' = the_buffer
    /\ UNCHANGED <<edgeVars, respVars, routerVars, chanVars>>

\* Buffer::read_from, called first or again after Ok(true); slicing the
\* content at a position beyond its length panics
Buffer_read_from(script) ==
    /\ Called("read_from")
    /\ LastOp = "read_from" => outcome = "more"
    /\ IF the_buffer.pos > len(the_buffer)
       THEN /\ script = <<IoBlock>>
            /\ outcome' = "panic"
            /\ UNCHANGED <<the_buffer, supplied>>
       ELSE LET r == read_from(the_buffer, script)
                n == ScriptBytes(script)
            IN  /\ r.result /= "stuck"
                /\ r.rest = <<>>
                /\ the_buffer' = r.buffer
                /\ outcome' = r.result
                /\ supplied' = supplied \o [i \in 1..n |-> BodyByte(Len(supplied) + i)]
    /\ last_io' = script[Len(script)].kind
    /\ sink' = <<>> /\ original' = Buffer_new /\ took' = None

\* the answers a writer can give to one write_to: none when nothing is
\* left to write, else a script or the whole remainder accepted at once
WriteScripts(b) ==
    IF b.pos >= len(b) THEN {<<>>}
    ELSE IoScripts \cup {<<IoData(len(b) - b.pos)>>}

\* Buffer::write_to, called first or again after Ok(true)
Buffer_write_to(script) ==
    /\ Called("write_to")
    /\ LastOp = "write_to" => outcome = "more"
    /\ IF the_buffer.pos > len(the_buffer)
       THEN /\ outcome' = "panic"
            /\ sink' = <<>> /\ original' = the_buffer
            /\ UNCHANGED the_buffer
       ELSE LET w == write_to(the_buffer, script) IN
            /\ w.result /= "stuck"
            /\ w.rest = <<>>
            /\ the_buffer' = w.buffer
            /\ outcome' = w.result
            /\ sink' = IF LastOp = "write_to" THEN sink \o w.out ELSE w.out
            /\ original' = IF LastOp = "write_to" THEN original ELSE the_buffer
    /\ last_io' = IF script = <<>> THEN "none" ELSE script[Len(script)].kind
    /\ supplied' = <<>> /\ took' = None

\* Buffer::take
Buffer_take ==
    /\ Called("take")
    /\ the_buffer' = take(the_buffer).buffer
    /\ took' = Some(take(the_buffer).ret)
    /\ outcome' = "none" /\ last_io' = "none"
    /\ supplied' = <<>> /\ sink' = <<>> /\ original' = Buffer_new

\* Buffer::send
Buffer_send(content) ==
    /\ Called("send")
    /\ the_buffer' = send(the_buffer, content)
    /\ outcome' = "none" /\ last_io' = "none"
    /\ supplied' = <<>> /\ sink' = <<>> /\ original' = Buffer_new /\ took' = None

\* Buffer::set_capacity
Buffer_set_capacity(capacity) ==
    /\ Called("set_capacity")
    /\ the_buffer' = set_capacity(the_buffer, capacity)
    /\ outcome' = "none" /\ last_io' = "none"
    /\ supplied' = <<>> /\ sink' = <<>> /\ original' = Buffer_new /\ took' = None

Create == \E b \in StartBuffers : Buffer_create(b)
Read == \E script \in IoScripts : Buffer_read_from(script)

NextBuffer ==
    \/ Create
    \/ Read
    \/ \E script \in WriteScripts(the_buffer) : Buffer_write_to(script)
    \/ Buffer_take
    \/ \E content \in SendContents : Buffer_send(content)
    \/ \E capacity \in Capacities : Buffer_set_capacity(capacity)

SpecBuffer == InitResp /\ [][NextBuffer]_vars

\* ------------------------------------------------------------------------
\* lib.rs: the response handed over through an mpsc channel.  The callback
\* is called on the reactor thread with the Response; it writes it before it
\* returns, or moves it to another thread that writes it later.
\* ------------------------------------------------------------------------
\* EdgeHandler::callback up to try_recv: the application is called with the
\* Response.  Written inside the callback, write() sends and loads notify,
\* which nothing has stored yet.
EdgeHandler_callback(mode, r) ==
    /\ cpc = "create"
    /\ chan_mode' = mode
    /\ chan_resp' = Some(r)
    /\ IF mode = "inline"
       THEN /\ rx' = Append(rx, r)
            /\ chan_ready' = IF notify_flag THEN chan_ready + 1 ELSE chan_ready
            /\ tpc' = "done"
       ELSE /\ tpc' = "send"
            /\ UNCHANGED <<rx, chan_ready>>
    /\ cpc' = "try_recv"
    /\ UNCHANGED <<edgeVars, respVars, routerVars, bufVars, notify_flag, chan_next,
                   self_resp, chan_res>>

\* self.rx.try_recv(): Ok(resp) returns Next::write, Empty goes on to the store
EdgeHandler_try_recv ==
    /\ cpc = "try_recv"
    /\ IF rx /= <<>>
       THEN /\ self_resp' = Some(Head(rx))
            /\ rx' = Tail(rx)
            /\ chan_next' = "write"
            /\ cpc' = "returned"
       ELSE /\ cpc' = "store"
            /\ UNCHANGED <<self_resp, rx, chan_next>>
    /\ UNCHANGED <<edgeVars, respVars, routerVars, bufVars, chan_mode, chan_resp,
                   notify_flag, tpc, chan_ready, chan_res>>

\* notify.store(true, Ordering::Relaxed); Next::wait()
EdgeHandler_store_notify ==
    /\ cpc = "store"
    /\ notify_flag' = TRUE
    /\ chan_next' = "wait"
    /\ cpc' = "returned"
    /\ UNCHANGED <<edgeVars, respVars, routerVars, bufVars, chan_mode, chan_resp, rx,
                   tpc, self_resp, chan_ready, chan_res>>

\* Response::write on the other thread: self.tx.send(self.resp)
Response_write_send ==
    /\ tpc = "send"
    /\ rx' = Append(rx, unwrap(chan_resp))
    /\ tpc' = "load"
    /\ UNCHANGED <<edgeVars, respVars, routerVars, bufVars, chan_mode, chan_resp,
                   notify_flag, cpc, chan_next, self_resp, chan_ready, chan_res>>

\* Response::write: if self.notify.load(Relaxed) { self.ctrl.ready(Next::write()) }
Response_write_load ==
    /\ tpc = "load"
    /\ chan_ready' = IF notify_flag THEN chan_ready + 1 ELSE chan_ready
    /\ tpc' = "done"
    /\ UNCHANGED <<edgeVars, respVars, routerVars, bufVars, chan_mode, chan_resp, rx,
                   notify_flag, cpc, chan_next, self_resp, chan_res>>

\* the event loop processes a Control::ready(Next::write()) message once
\* the handler has returned
Control_ready ==
    /\ cpc = "returned"
    /\ chan_ready > 0
    /\ chan_ready' = chan_ready - 1
    /\ chan_next' = IF chan_next = "wait" THEN "write" ELSE chan_next
    /\ UNCHANGED <<edgeVars, respVars, routerVars, bufVars, chan_mode, chan_resp, rx,
                   notify_flag, cpc, tpc, self_resp, chan_res>>

\* Handler::on_response of lib.rs: the Resp callback received, or a blocking
\* recv; the head is set, an empty body ends the response
EdgeHandler_on_response ==
    /\ cpc = "returned" /\ chan_next = "write" /\ is_none(chan_res)
    /\ is_some(self_resp) \/ rx /= <<>>
    /\ LET r == IF is_some(self_resp) THEN unwrap(self_resp) ELSE Head(rx) IN
       /\ chan_res' = Some([status |-> r.status, body |-> r.body])
       /\ chan_next' = IF r.body = <<>> THEN "end" ELSE "write"
    /\ rx' = IF is_some(self_resp) THEN rx ELSE Tail(rx)
    /\ self_resp' = None
    /\ UNCHANGED <<edgeVars, respVars, routerVars, bufVars, chan_mode, chan_resp,
                   notify_flag, cpc, tpc, chan_ready>>

NextChannel ==
    \/ \E mode \in {"inline", "thread"} :
          \E st \in AppStatuses \cup {StatusOk} :
             \E body \in {<<>>, <<7>>, <<7, 8>>} :
                EdgeHandler_callback(mode, [status |-> st, body |-> body])
    \/ EdgeHandler_try_recv
    \/ EdgeHandler_store_notify
    \/ Response_write_send
    \/ Response_write_load
    \/ Control_ready
    \/ EdgeHandler_on_response

\* the channel variant on its own
SpecChannel == InitResp /\ [][NextChannel]_vars

\* ------------------------------------------------------------------------
\* Properties
\* ------------------------------------------------------------------------
RECURSIVE Flatten(_)
Flatten(seqs) == IF seqs = <<>> THEN <<>> ELSE Head(seqs) \o Flatten(Tail(seqs))

\* the bytes of a buffer that write_to has not handed to the transport yet
Unwritten(b) == IF is_none(b) THEN <<>>
                ELSE VecSlice(unwrap(b).content, unwrap(b).pos, len(unwrap(b)) - unwrap(b).pos)
\* the bytes of the Body replies waiting in the deque, oldest first
RECURSIVE QueuedBytes(_)
QueuedBytes(q) ==
    IF q = <<>> THEN <<>>
    ELSE (IF Head(q).kind = "Body" THEN Unwritten(Head(q).body) ELSE <<>>) \o QueuedBytes(Tail(q))

\* the request is answered by a streaming closure
IsStream == app.result.tag = "Stream" /\ httpReq.method \in RoutedMethods
Closure == app.result.closure
\* a streaming closure all of whose writes are non-empty
NonEmptyStream == IsStream /\ \A i \in 1..Len(Closure) : Closure[i] > 0
AllChunks == Flatten([i \in 1..Len(Closure) |-> ChunkBytes(i, Closure[i])])
\* the emitted head says the response has no body
HeadOnly == is_some(res) /\ no_body(unwrap(res).status, httpReq.method = "HEAD")
Informational(st) == st >= 100 /\ st <= 199

\* C1: the chunks a streaming closure appends reach the transport in the
\* order they were appended, each byte once: at every moment the bytes the
\* transport accepted, then the unwritten rest of the chunk in the handler's
\* hands, then the chunks still in the deque, are exactly the appended
\* chunks in order, whatever the interleaving of pushes, steals and partial
\* writes.
StreamingFifo ==
    IsStream => transport \o Unwritten(buffer) \o QueuedBytes(queue) = Flatten(appended)
StreamingFifoWitness ==
    /\ IsStream /\ Len(appended) = 2
    /\ transport = <<11, 12, 21>>
    /\ is_some(buffer) /\ unwrap(buffer).pos = 1
    /\ queue /= <<>>

\* C2: one call of can_write and one call of done on the same Resp, in
\* either order: either can_write returned true and done did not notify,
\* or can_write returned false and done notified exactly once.
CanWriteDoneRendezvous ==
    (Len(can_writes) = 1 /\ done_calls = 1 /\ handle # "done_notify") =>
        \/ can_writes[1] /\ done_notifies = 0
        \/ ~can_writes[1] /\ done_notifies = 1
CanWriteDoneRendezvousWitness ==
    /\ can_writes = <<FALSE>> /\ done_calls = 1 /\ done_notifies = 1
    /\ handle = "gone" /\ len(resp.body) > 0

\* C3: a closure that appends non-empty chunks and returns: the drop pushes
\* one sentinel, after every chunk, and notifies once more (one notify for
\* the head, one per chunk, one for the drop); the handler returns end only
\* with the sentinel in its hands, the deque drained, and the transport
\* holding exactly the chunks in order.
StreamEndsOnSentinel ==
    NonEmptyStream =>
        /\ sentinels <= 1
        /\ sentinels = 1 => written = Len(Closure) /\ Flatten(appended) = AllChunks
        /\ wpc = "done" => sentinels = 1 /\ notifies = Len(Closure) + 2
        /\ (next = "end" /\ ~HeadOnly) =>
              /\ sentinels = 1
              /\ transport = AllChunks
              /\ buffer = Some(Buffer_from(<<>>))
              /\ queue = <<>>
StreamEndsOnSentinelWitness ==
    /\ NonEmptyStream /\ Len(Closure) = MaxChunks
    /\ next = "end" /\ ~HeadOnly
    /\ transport = AllChunks /\ Len(transport) > MaxChunks
    /\ wpc = "notify_drop"

\* C4: under the fair scheduling of LiveSpec, a dispatched streaming
\* response whose closure appends non-empty chunks and returns is always
\* ended by the handler, unless the transport fails a write.
StreamingCompletes ==
    (wpc = "queued" /\ NonEmptyStream) ~> (next = "end" \/ failed)
StreamingCompletesWitness ==
    /\ NonEmptyStream /\ Len(Closure) = MaxChunks
    /\ next = "wait" /\ writing = "Body" /\ wpc = "closure" /\ written = 1
    /\ Len(transport) > 0

\* C5: a HEAD request whose head parsed: the emitted head carries no
\* Content-Length, the handler ends with it, and no body byte is written,
\* whatever the application did (streaming included).
HeadNoBody ==
    (httpReq.method = "HEAD" /\ httpReq.uri_ok) =>
        /\ transport = <<>>
        /\ is_some(res) => /\ is_none(unwrap(res).headers.ContentLength)
                           /\ next = "end"
HeadNoBodyWitness ==
    /\ httpReq.method = "HEAD" /\ dispatched = 1
    /\ IsStream /\ is_some(app.set_len) /\ is_none(app.set_status)
    /\ is_some(res) /\ wpc = "done" /\ Len(QueuedBytes(queue)) > 1

\* C6: a response with status 1xx, 204 or 304: the emitted head carries no
\* Content-Length, the handler ends with it, and no body byte is written.
StatusNoBody ==
    (is_some(res) /\ (\/ Informational(unwrap(res).status)
                      \/ unwrap(res).status = 204
                      \/ unwrap(res).status = 304)) =>
        /\ is_none(unwrap(res).headers.ContentLength)
        /\ next = "end"
        /\ transport = <<>>
StatusNoBodyWitness ==
    /\ httpReq.method = "POST"
    /\ is_some(res) /\ unwrap(res).status = 304
    /\ app.set_len = Some(5) /\ app.result = ActSend(<<7, 8>>)
    /\ wpc = "done" /\ pending = 0

\* the request carries a Transfer-Encoding ending in chunked and a Content-Length
BothHeaders ==
    /\ httpReq.uri_ok
    /\ is_some(httpReq.headers.TransferEncoding)
    /\ last(unwrap(httpReq.headers.TransferEncoding)) = Some("chunked")
    /\ is_some(httpReq.headers.ContentLength)
PayloadIgnored == httpReq.method \in {"GET", "HEAD", "DELETE", "CONNECT"}

\* C7 as stated: a request with both Transfer-Encoding: chunked and
\* Content-Length is rejected by check_request and answered 400.
ChunkedWithLengthRejected ==
    (BothHeaders /\ is_some(checked)) =>
        /\ ~unwrap(checked).ok
        /\ dispatched = 0
        /\ is_some(res) => unwrap(res).status = 400
\* C7 as amended: Transfer-Encoding takes precedence and the Content-Length
\* is ignored; such a request is rejected only for TRACE, dispatched without
\* a buffer for GET/HEAD/DELETE/CONNECT, and given a growable buffer and
\* read for any other method.
ChunkedOverridesLength ==
    (BothHeaders /\ is_some(checked)) =>
        LET c == unwrap(checked) IN
        /\ httpReq.method = "TRACE" => ~c.ok /\ c.msg = MsgTrace /\ is_none(c.buffer)
        /\ PayloadIgnored => c.ok /\ ~c.read /\ is_none(c.buffer)
        /\ (httpReq.method /= "TRACE" /\ ~PayloadIgnored) =>
              c.ok /\ c.read /\ c.buffer = Some(Buffer_new)
ChunkedOverridesLengthWitness ==
    /\ BothHeaders /\ httpReq.method = "POST"
    /\ unwrap(httpReq.headers.ContentLength).valid
    /\ next = "read" /\ buffer = Some(Buffer_new)

FramingError == is_some(checked) /\ ~unwrap(checked).ok
BadRequestHead ==
    [status |-> 400,
     headers |-> [NoHeaders EXCEPT !.ContentType = Some("text/plain; charset=UTF-8")]]

\* C8 as stated: after a framing error no buffer was allocated, the handler
\* never asks to read, the callback never runs, and the response is 400 with
\* the message as its plain-text body.
FramingErrorAnswered ==
    FramingError =>
        /\ is_none(unwrap(checked).buffer) /\ is_none(attached)
        /\ next /= "read"
        /\ dispatched = 0 /\ wpc = "none"
        /\ is_some(res) => unwrap(res).status = 400
        /\ next = "end" => transport = into_bytes(unwrap(checked).msg)
\* C8 as amended: the same, and the message is written as the body unless
\* the request is HEAD, for which the 400 head is emitted and no body byte
\* is written.
FramingErrorShortCircuits ==
    FramingError =>
        /\ is_none(unwrap(checked).buffer) /\ is_none(attached)
        /\ next /= "read"
        /\ dispatched = 0 /\ wpc = "none"
        /\ (next = "write" /\ writing = "Init" /\ hpc = "idle") =>
              queue = <<Headers([status |-> 400, headers |-> BadRequestHead.headers,
                                 streaming |-> FALSE]),
                        Body(Buffer_from(into_bytes(unwrap(checked).msg)))>>
        /\ is_some(res) => unwrap(res) = BadRequestHead
        /\ next = "end" => transport = IF httpReq.method = "HEAD" THEN <<>>
                                       ELSE into_bytes(unwrap(checked).msg)
FramingErrorShortCircuitsWitness ==
    /\ FramingError /\ httpReq.method = "TRACE"
    /\ unwrap(checked).msg = MsgTrace
    /\ next = "end" /\ transport = into_bytes(MsgTrace)

\* C9: once the 400 of a framing error has been written, the handler's
\* final directive is remove, not end.
FramingErrorCloses ==
    (FramingError /\ next \in {"end", "remove"}
                  /\ transport = into_bytes(unwrap(checked).msg)) => next = "remove"

\* C10: when read_from fails, the buffer is not attached to the request and
\* the callback is not dispatched.
ReadErrorFatal ==
    read_failed => /\ is_none(attached)
                   /\ wpc = "none" /\ dispatched = 0


\* the request's headers pass the length rules and declare a body
ChunkedBody ==
    /\ is_some(httpReq.headers.TransferEncoding)
    /\ last(unwrap(httpReq.headers.TransferEncoding)) = Some("chunked")
LengthBody ==
    /\ is_none(httpReq.headers.TransferEncoding)
    /\ is_some(get_ContentLength(httpReq.headers))
    /\ unwrap(get_ContentLength(httpReq.headers)) > 0
DeclaresBody == ChunkedBody \/ LengthBody
\* Content-Length: 0 or neither header on HTTP/1.x, without Transfer-Encoding
DeclaresNoBody ==
    /\ is_none(httpReq.headers.TransferEncoding)
    /\ \/ get_ContentLength(httpReq.headers) = Some(0)
       \/ is_none(httpReq.headers.ContentLength) /\ httpReq.version = "Http11"
\* the handler holds no buffer for a request body (its buffer slot is used
\* again for the response body once on_response runs)
NoRequestBuffer == (writing = "Init" /\ hpc = "idle") => is_none(buffer)
\* callback() ran on the request: it was taken, and routed to a job or to 404
Routed ==
    /\ request = None /\ stealer
    /\ IF httpReq.path = <<"a", "b">> /\ httpReq.method \in RoutedMethods
       THEN wpc /= "none"
       ELSE dispatched = 0 /\ wpc = "none"

\* C11: a request that declares a body: for GET, HEAD, DELETE and CONNECT
\* the payload is ignored (accepted, no buffer, no read, routed at once);
\* for TRACE it is rejected with the TRACE message and answered 400; a
\* TRACE request that declares no body is accepted.
PayloadByMethod ==
    is_some(checked) =>
        LET c == unwrap(checked) IN
        /\ (DeclaresBody /\ PayloadIgnored) =>
              /\ c.ok /\ ~c.read /\ is_none(c.buffer)
              /\ NoRequestBuffer /\ next /= "read" /\ is_none(attached)
              /\ Routed
        /\ (DeclaresBody /\ httpReq.method = "TRACE") =>
              /\ ~c.ok /\ c.msg = MsgTrace
              /\ dispatched = 0 /\ wpc = "none"
              /\ is_some(res) => unwrap(res).status = 400
        /\ (DeclaresNoBody /\ httpReq.method = "TRACE") => c.ok /\ Routed
PayloadByMethodWitness ==
    /\ LengthBody /\ httpReq.method = "DELETE" /\ httpReq.path = <<"a", "b">>
    /\ is_some(checked) /\ dispatched = 1 /\ next = "end"
    /\ transport = <<7, 8>>

\* C12: a method that allows a payload: a valid Content-Length n > 0
\* without Transfer-Encoding gives a fixed buffer of exactly n bytes, an
\* indeterminate length (chunked, or neither header outside HTTP/1.x) a
\* growable one, and in both cases the body is read.
PayloadAllowed == httpReq.method \notin {"GET", "HEAD", "DELETE", "CONNECT", "TRACE"}
BufferByLength ==
    (PayloadAllowed /\ is_some(checked)) =>
        LET c == unwrap(checked) IN
        /\ LengthBody =>
              /\ c.ok /\ c.read
              /\ is_some(c.buffer)
              /\ ~unwrap(c.buffer).growable
              /\ len(unwrap(c.buffer)) = unwrap(get_ContentLength(httpReq.headers))
              /\ unwrap(c.buffer).pos = 0
        /\ (ChunkedBody \/ (/\ is_none(httpReq.headers.TransferEncoding)
                             /\ is_none(httpReq.headers.ContentLength)
                             /\ httpReq.version = "Http20")) =>
              /\ c.ok /\ c.read
              /\ c.buffer = Some(Buffer_new)
              /\ unwrap(c.buffer).growable
BufferByLengthWitness ==
    /\ PayloadAllowed /\ LengthBody
    /\ next = "read" /\ is_some(buffer)
    /\ ~unwrap(buffer).growable /\ len(unwrap(buffer)) = MaxBody
    /\ unwrap(buffer).pos = 1

\* C13 as stated: a request with Content-Length: 0 (and no malformed
\* Transfer-Encoding), or an HTTP/1.x request with neither header, has no
\* buffer, is never read and is routed at once.
EmptyBodySkipsRead ==
    (httpReq.uri_ok /\ (\/ get_ContentLength(httpReq.headers) = Some(0)
                           /\ (is_none(httpReq.headers.TransferEncoding) \/ ChunkedBody)
                        \/ DeclaresNoBody)) =>
        /\ NoRequestBuffer /\ next /= "read" /\ is_none(attached)
        /\ is_some(checked) => /\ unwrap(checked).ok /\ ~unwrap(checked).read
                                /\ is_none(unwrap(checked).buffer)
                                /\ Routed
\* C13 as amended: the same for a request without Transfer-Encoding.
EmptyBodySkipsReadNoEncoding ==
    (httpReq.uri_ok /\ DeclaresNoBody) =>
        /\ NoRequestBuffer /\ next /= "read" /\ is_none(attached)
        /\ is_some(checked) => /\ unwrap(checked).ok /\ ~unwrap(checked).read
                                /\ is_none(unwrap(checked).buffer)
                                /\ Routed
EmptyBodySkipsReadNoEncodingWitness ==
    /\ httpReq.method = "POST" /\ get_ContentLength(httpReq.headers) = Some(0)
    /\ is_none(httpReq.headers.TransferEncoding)
    /\ httpReq.path = <<"a", "b">>
    /\ dispatched = 1 /\ next = "end" /\ transport = <<7, 8>>


\* what the lookup found, the router and the route it found it in (every
\* callback is registered once, under its own number), and the part of the
\* path that follows that router's prefix
Found == is_some(lookup) /\ is_some(unwrap(lookup).found)
FoundCallback == unwrap(unwrap(lookup).found).callback
FoundParams == unwrap(unwrap(lookup).found).params
LookupPath == unwrap(lookup).req.path
RoutesOf(k) ==
    IF unwrap(lookup).req.method \in DOMAIN routers[k].routes
    THEN routers[k].routes[unwrap(lookup).req.method] ELSE <<>>
MatchedRouter ==
    CHOOSE k \in 1..Len(routers) :
        \E i \in 1..Len(RoutesOf(k)) : RoutesOf(k)[i].callback = FoundCallback
MatchedIndex ==
    CHOOSE i \in 1..Len(RoutesOf(MatchedRouter)) :
        RoutesOf(MatchedRouter)[i].callback = FoundCallback
MatchedRoute == RoutesOf(MatchedRouter)[MatchedIndex]
Suffix == SubSeq(LookupPath, Len(routers[MatchedRouter].prefix) + 1, Len(LookupPath))
\* a full match: as many segments as path components, literals equal
FullMatch(route, path) ==
    /\ Len(route.segments) = Len(path)
    /\ \A i \in 1..Len(path) : route.segments[i].fixed => route.segments[i].s = path[i]
\* the bindings of the route's variable segments on the path
Bindings(route, path) ==
    LET at == {i \in 1..Len(route.segments) : i <= Len(path) /\ ~route.segments[i].fixed}
    IN  [n \in {route.segments[i].s : i \in at} |->
            path[CHOOSE i \in at : /\ route.segments[i].s = n
                                   /\ \A j \in at : route.segments[j].s = n => j <= i]]

\* C14: the route find_callback returns has as many segments as the path
\* has components after the prefix, and its literal segments equal the
\* components at their positions.
RouteMatchesFully == Found => FullMatch(MatchedRoute, Suffix)

\* C15: when the route find_callback returns matches the path fully, the
\* params it returns are exactly the bindings of that route's variable
\* segments.
ParamsOfMatchedRoute ==
    (Found /\ FullMatch(MatchedRoute, Suffix)) =>
        FoundParams = Bindings(MatchedRoute, Suffix)

\* C16: the route find_callback returns is the first route of the method,
\* in registration order, that matches the path after the prefix.
FirstMatchWins ==
    Found => /\ FullMatch(MatchedRoute, Suffix)
             /\ \A j \in 1..(MatchedIndex - 1) :
                    ~FullMatch(RoutesOf(MatchedRouter)[j], Suffix)


\* no router has a route for the request: nothing is registered for its
\* method, or its path matches no route (the router at /p is skipped on its
\* prefix for every request)
NoRoute ==
    /\ is_some(checked) /\ unwrap(checked).ok
    /\ httpReq.method = "CONNECT" \/ httpReq.path = <<"nope">>
NotFoundHead ==
    [status |-> 404, headers |-> [NoHeaders EXCEPT !.ContentType = Some("text/plain")]]

\* C17 as stated: on a routing miss no callback runs, the params stay
\* unset, the head is 404 text/plain, and the handler ends (never removes)
\* with the text naming the path written as the body.
RoutingMissAnswered ==
    (NoRoute /\ ~failed /\ ~read_failed) =>
        /\ dispatched = 0 /\ wpc = "none" /\ is_none(req)
        /\ is_some(res) => unwrap(res) = NotFoundHead
        /\ next /= "remove"
        /\ next = "end" => transport = not_found_bytes(httpReq.path)
\* C17 as amended: the same, and the text is written as the body unless
\* the request is HEAD, for which the 404 head is emitted and no body byte
\* is written.
RoutingMiss ==
    (NoRoute /\ ~failed /\ ~read_failed) =>
        /\ dispatched = 0 /\ wpc = "none" /\ is_none(req)
        /\ (next = "write" /\ writing = "Init" /\ hpc = "idle") =>
              queue = <<Headers([status |-> 404, headers |-> NotFoundHead.headers,
                                 streaming |-> FALSE]),
                        Body(Buffer_from(not_found_bytes(httpReq.path)))>>
        /\ is_some(res) => unwrap(res) = NotFoundHead
        /\ next /= "remove"
        /\ next = "end" => transport = IF httpReq.method = "HEAD" THEN <<>>
                                       ELSE not_found_bytes(httpReq.path)
RoutingMissWitness ==
    /\ NoRoute /\ httpReq.method = "CONNECT" /\ httpReq.path = <<"a", "b">>
    /\ next = "end" /\ transport = not_found_bytes(<<"a", "b">>)

\* C18: the router a callback is found in has a prefix no longer than the
\* path and equal to its leading components; what it finds is what its
\* routes give on the rest of the path alone; no router mounted before it
\* yields a callback; and nothing is found only if no router yields one.
PrefixRouting ==
    is_some(lookup) =>
        IF Found
        THEN LET r == routers[MatchedRouter] IN
             /\ Len(LookupPath) >= Len(r.prefix)
             /\ \A i \in 1..Len(r.prefix) : r.prefix[i].fixed /\ r.prefix[i].s = LookupPath[i]
             /\ unwrap(lookup).found =
                   find_callback([r EXCEPT !.prefix = <<>>],
                                 [unwrap(lookup).req EXCEPT !.path = Suffix])
             /\ \A j \in 1..(MatchedRouter - 1) :
                    is_none(find_callback(routers[j], unwrap(lookup).req))
        ELSE \A k \in 1..Len(routers) : is_none(find_callback(routers[k], unwrap(lookup).req))
PrefixRoutingWitness ==
    /\ Found /\ MatchedRouter = 2
    /\ Len(routers[2].prefix) = 1 /\ Len(routers[1].prefix) = 1
    /\ Len(RoutesOf(1)) = MaxRoutes
    /\ Len(LookupPath) = 2


\* the bytes a buffer holds
Content(b) == VecSlice(b.content, 0, len(b))

\* nothing but read_from was called on the buffer since it was made
Reading == \A i \in 1..Len(ops) : ops[i] = "read_from"

\* C19: read_from on a fixed buffer of capacity C > 0 answers complete
\* exactly when the reader has handed over C bytes, which the buffer then
\* holds; the end of data before that is an error.
FixedComplete ==
    (Reading /\ ~the_buffer.growable /\ len(the_buffer) > 0) =>
        /\ (outcome = "done") <=> (Len(supplied) = len(the_buffer))
        /\ outcome = "done" => Content(the_buffer) = supplied
        /\ (last_io = "zero" /\ Len(supplied) < len(the_buffer)) => outcome = "err"
        /\ Len(supplied) = the_buffer.pos
FixedCompleteWitness ==
    /\ Reading
    /\ ~the_buffer.growable /\ len(the_buffer) = MaxBody
    /\ outcome = "done" /\ calls = MaxCalls /\ last_io = "data"

\* C20: read_from on a growable buffer: once the end of data is reached
\* the buffer holds exactly the bytes handed over, in order, and nothing
\* else; until then they are its first pos bytes.
GrowableConcat ==
    (Reading /\ the_buffer.growable) =>
        /\ outcome = "done" => /\ the_buffer.content = VecOf(supplied)
                               /\ len(the_buffer) = Len(supplied)
        /\ (outcome = "more" /\ calls > 0) =>
              /\ the_buffer.pos = Len(supplied)
              /\ VecSlice(the_buffer.content, 0, the_buffer.pos) = supplied
GrowableConcatWitness ==
    /\ Reading
    /\ the_buffer.growable /\ outcome = "done"
    /\ calls = MaxCalls /\ Len(supplied) = MaxBody
    /\ the_buffer.content = VecOf(<<BodyByte(1), BodyByte(2)>>)


\* write_to was called last and returned Ok
Writing == LastOp = "write_to" /\ outcome \in {"more", "done"}

\* C21: across the calls of write_to that Ok(true) separates, the writer
\* has accepted the bytes from where the run began up to the position, each
\* once and in order, the whole remainder when write_to returns complete;
\* the content never changes and the position moves by what was accepted.
WriteDelivers ==
    Writing =>
        /\ the_buffer.content = original.content
        /\ the_buffer.pos = original.pos + Len(sink)
        /\ sink = VecSlice(original.content, original.pos, Len(sink))
        /\ outcome = "done" => the_buffer.pos = len(original)
        /\ last_io = "block" => outcome = "more"
WriteDeliversWitness ==
    /\ Writing /\ outcome = "done"
    /\ ops = <<"write_to", "write_to", "write_to">>
    /\ original = Buffer_from(<<7, 8, 9>>)
    /\ sink = <<7, 8, 9>>

\* C23: the position of a buffer never exceeds the length of its storage.
PosWithinStorage == the_buffer.pos <= len(the_buffer)

\* read_from grows the storage of a growable buffer only once the position
\* has reached its length, to DEFAULT_BUF_SIZE or to twice the length, and
\* leaves the length of a fixed buffer alone
GrowthRule ==
    (LastOp = "read_from" /\ outcome /= "panic") =>
        IF prev.growable
        THEN len(the_buffer) > len(prev) =>
                /\ the_buffer.pos >= len(prev)
                /\ \/ len(the_buffer) = IF len(prev) < DEFAULT_BUF_SIZE
                                         THEN DEFAULT_BUF_SIZE ELSE 2 * len(prev)
                   \/ outcome = "done" /\ len(the_buffer) = the_buffer.pos
        ELSE len(the_buffer) = len(prev)

\* C24: read_from grows a growable buffer only when it is full, to 4096 or
\* to twice its capacity, and not beyond a ceiling; a fixed buffer keeps
\* its capacity.
GrowthCapped ==
    /\ GrowthRule
    /\ LastOp = "read_from" => len(the_buffer) <= DEFAULT_BUF_SIZE * 2^MaxDoublings

\* C25: take returns the bytes the buffer stored and leaves it with empty
\* storage at position 0; a take right after a take returns nothing.
TakeMoves ==
    LastOp = "take" =>
        /\ took = Some(prev.content)
        /\ the_buffer = [prev EXCEPT !.content = VecNew, !.pos = 0]
        /\ is_empty(the_buffer)
        /\ (Len(ops) >= 2 /\ ops[Len(ops) - 1] = "take") => took = Some(VecNew)
TakeMovesWitness ==
    /\ ops = <<"write_to", "take", "take">>
    /\ took = Some(VecNew)
    /\ prev = Buffer_new


\* C22: a zero-byte write of a non-empty remainder is an error of
\* write_to, and after any write error the handler has returned remove: it
\* neither ends the response nor writes again.
WriteErrorFatal ==
    /\ wrote_zero => failed
    /\ failed => next = "remove"
WriteErrorFatalWitness ==
    /\ wrote_zero /\ failed /\ next = "remove"
    /\ streaming /\ transport /= <<>>


\* the Headers replies in the deque all satisfy P, and so do the Body replies Q
HeadersQueued(P(_)) ==
    \A i \in 1..Len(queue) : queue[i].kind = "Headers" => P(unwrap(queue[i].response))
BodiesQueued(Q(_)) ==
    \A i \in 1..Len(queue) : queue[i].kind = "Body" => Q(unwrap(queue[i].body))
\* the callback ran and returned a result of one of these tags
Returned(tags) == dispatched = 1 /\ app.result.tag \in tags

\* C26: a response switched to streaming carries no Content-Length, neither
\* in the Headers reply the job pushes nor in the head on_response emits.
StreamingNoLength ==
    LET NoLength(r) == is_streaming(r) => is_none(r.headers.ContentLength)
    IN  /\ HeadersQueued(NoLength)
        /\ (is_some(res) /\ streaming) => is_none(unwrap(res).headers.ContentLength)

AppErrorAnswered ==
    Returned({"Err"}) =>
        LET st == unwrap(app.result.status)
            msg == app.result.message
            bytes == IF is_some(msg) THEN into_bytes(unwrap(msg)) ELSE <<>>
            ctype == IF is_some(msg) THEN Some("text/plain") ELSE None
            ErrHead(r) == /\ r.status = st /\ r.headers.ContentType = ctype
                          /\ ~is_streaming(r)
            ErrBody(b) == is_some(msg) /\ b = Buffer_from(bytes)
        IN  /\ HeadersQueued(ErrHead) /\ BodiesQueued(ErrBody)
            /\ is_some(res) => /\ unwrap(res).status = st
                               /\ unwrap(res).headers.ContentType = ctype
            /\ next /= "panic"
            /\ ~failed => next /= "remove"
            /\ (next = "end" /\ ~failed) => transport = IF HeadOnly THEN <<>> ELSE bytes
AppErrorAnsweredWitness ==
    /\ Returned({"Err"}) /\ is_some(app.result.message)
    /\ app.set_status = Some(StatusNotFound)
    /\ is_some(res) /\ unwrap(res).status = StatusInternalServerError
    /\ next = "end" /\ transport = into_bytes(MsgApp)

\* C30: the first reply the handler takes from the deque is the Headers
\* reply, every reply leaves the deque from its head, and no body byte
\* reaches the transport before on_response has set status and headers.
HeadersFirst ==
    /\ [](transport /= <<>> => is_some(res))
    /\ [][Len(queue') < Len(queue) =>
            /\ queue' = Tail(queue)
            /\ is_none(res) => Head(queue).kind = "Headers"]_vars
HeadersFirstWitness ==
    /\ is_some(res) /\ is_some(buffer) /\ writing = "Body"
    /\ dispatched = 1 /\ transport /= <<>> /\ Len(transport) < Len(app.result.bytes)


\* C29: a response whose handle the application called nothing on has
\* status 200; after redirect the Location is the url, the status the one
\* given, or 302 when none was, and the body is empty; after end the status
\* is the one given and the body is empty; both consume the handle.
RedirectAndEnd ==
    LET Ended == /\ resp.headers.ContentLength = Some(0)
                 /\ len(resp.body) = 0
                 /\ is_none(resp_deque)
                 /\ handle /= "fresh"
    IN  /\ called.method = "none" => resp.status = StatusOk /\ resp.headers = NoHeaders
        /\ called.method = "redirect" =>
              /\ resp.headers.Location = Some(RedirectUrl)
              /\ resp.status = IF is_some(called.status) THEN unwrap(called.status)
                               ELSE StatusFound
              /\ Ended
        /\ called.method = "end" =>
              /\ resp.status = unwrap(called.status)
              /\ is_none(resp.headers.Location)
              /\ Ended
RedirectAndEndWitness ==
    /\ called = [method |-> "redirect", status |-> None]
    /\ resp.status = StatusFound /\ resp.headers.Location = Some(RedirectUrl)
    /\ handle = "gone" /\ can_writes = <<TRUE>>

\* the request matches a route of the application
RouteMatches == httpReq.path = <<"a", "b">> /\ httpReq.method \in RoutedMethods
\* the worker has invoked, or is about to invoke, the application callback
CallbackDue == wpc /= "none" \/ dispatched > 0

\* C31: check_request runs once per request, before any body byte is read;
\* the application callback is invoked at most once: once when validation
\* succeeds and a route matches, after the body (if any) was read completely,
\* and never when validation fails.
ValidatedOnceDispatchedOnce ==
    /\ [](/\ dispatched <= 1
          /\ is_none(checked) => is_none(attached) /\ ~read_failed /\ ~CallbackDue
          /\ (is_some(checked) /\ ~unwrap(checked).ok) => is_none(attached) /\ ~CallbackDue
          /\ CallbackDue =>
                /\ is_some(checked) /\ unwrap(checked).ok /\ RouteMatches
                /\ unwrap(checked).read => is_some(attached) /\ ~read_failed
          /\ wpc \notin {"none", "queued"} => dispatched = 1)
    /\ [][checked' /= checked => is_none(checked) /\ next = "init" /\ is_none(buffer)]_vars

\* C32: a buffer has one owner at a time.  The request body read by the
\* handler is moved into the request and the handler's slot is empty when
\* callback() has run; the worker gives its response body away when it
\* pushes it; and the buffer the handler then holds is a response body taken
\* out of the deque, never the request body.
BuffersMoved ==
    /\ [](/\ (stealer /\ writing = "Init") => is_none(buffer)
          /\ (stealer /\ is_some(checked) /\ unwrap(checked).read) =>
                /\ is_some(attached)
                /\ (RouteMatches /\ wpc /= "done") =>
                      is_some(req) /\ unwrap(req).body = attached
          /\ (is_some(job_body) /\ is_some(unwrap(job_body).buffer)) =>
                /\ wpc \in {"push_headers", "push_body"}
                /\ is_none(buffer)
                /\ \A i \in 1..Len(queue) : queue[i].kind = "Headers")
    /\ [][(stealer /\ is_none(buffer) /\ is_some(buffer')) =>
             /\ queue /= <<>> /\ Head(queue).kind = "Body" /\ queue' = Tail(queue)
             /\ unwrap(buffer').content = unwrap(Head(queue).body).content]_vars
BuffersMovedWitness ==
    /\ is_some(attached) /\ ~read_failed /\ len(unwrap(attached)) > 0
    /\ dispatched = 1 /\ wpc = "done" /\ unwrap(job_body).buffer = None
    /\ is_some(buffer) /\ writing = "Body"
    /\ unwrap(buffer) /= unwrap(attached)

\* the response is not streamed and has a body: the Body::Some of a job, or
\* the 404 or 400 the handler builds itself
WithBody ==
    /\ stealer
    /\ wpc /= "none" => is_some(job_body) /\ unwrap(job_body).kind = "Some"
\* every byte of the buffer in the handler's hands is on the transport
BodyWritten ==
    /\ is_some(buffer) /\ Unwritten(buffer) = <<>>
    /\ transport = VecSlice(unwrap(buffer).content, 0, len(unwrap(buffer)))

\* C35: a non-streaming response with a body is not ended with the body
\* unwritten: when on_response dequeues its Headers the Body is already in
\* the deque, behind them; the handler reaches end either from the head
\* that forbids a body or with the body in its hands, never from the empty
\* deque; and at that end the whole body is on the transport.
BodyBehindHeaders ==
    /\ []((WithBody /\ next = "end" /\ ~HeadOnly) => queue = <<>> /\ BodyWritten)
    /\ [][(WithBody /\ Len(queue') < Len(queue) /\ Head(queue).kind = "Headers") =>
             Len(queue) >= 2 /\ queue[2].kind = "Body"]_vars
    /\ [][(WithBody /\ next /= "end" /\ next' = "end") =>
             \/ is_some(buffer')
             \/ is_some(res') /\ no_body(unwrap(res').status, is_head_request)]_vars
BodyBehindHeadersWitness ==
    /\ WithBody /\ wpc = "done" /\ notifies = 1
    /\ hpc = "on_response" /\ is_some(res) /\ is_none(buffer)
    /\ Len(queue) = 1 /\ queue[1].kind = "Body" /\ Unwritten(queue[1].body) = <<7, 8>>

\* C36: a streaming response whose head admits a body, on a transport that
\* takes every write: the handler returns end only after the stream handle
\* was dropped, with every byte the closure wrote on the transport, whatever
\* the closure writes, zero-byte writes included.
StreamEndsAfterDrop ==
    (IsStream /\ ~HeadOnly /\ ~failed /\ next = "end") =>
        /\ sentinels = 1
        /\ written = Len(Closure)
        /\ transport = Flatten(appended)

\* C37: every response that is not streamed and that the handler writes
\* with a non-empty body carries a Content-Length equal to the length of
\* that body: the responses of jobs, the 404 of a routing miss and the 400
\* of a framing error.
WrittenBodiesSized ==
    (is_some(res) /\ ~streaming /\ is_some(buffer) /\ len(unwrap(buffer)) > 0) =>
        unwrap(res).headers.ContentLength = Some(len(unwrap(buffer)))

CanWriteOnlyAfterDone ==
    (\E i \in 1..Len(can_writes) : can_writes[i]) => done_calls >= 1

\* the empty buffer that ends a stream is in the deque or was popped
SentinelAppended ==
    \/ \E i \in 1..Len(unwrap(resp_deque)) : unwrap(resp_deque)[i] = Buffer_from(<<>>)
    \/ \E i \in 1..Len(popped) : popped[i] = Buffer_from(<<>>)

\* C39: stream() drops the fresh handle, which performs done() once, before
\* any chunk is appended; the drop of the streaming handle does not call
\* done() again: it appends the empty sentinel and notifies; so done() runs
\* once per response, sent, ended, redirected, dropped untouched or streamed.
DoneExactlyOnce ==
    /\ [](/\ done_calls <= 1
          /\ handle \in {"streaming", "append_notify", "sentinel_notify", "gone"} =>
                done_calls = 1
          /\ appends > 0 => done_calls = 1 /\ called.method = "stream"
          /\ (called.method = "stream" /\ handle \in {"sentinel_notify", "gone"}) =>
                SentinelAppended)
    /\ [][(handle = "streaming" /\ handle' \notin {"streaming", "append_notify"}) =>
             /\ handle' = "sentinel_notify"
             /\ done_calls' = done_calls
             /\ resp_deque' = Some(Append(unwrap(resp_deque), Buffer_from(<<>>)))]_vars
    /\ [][(handle = "sentinel_notify" /\ handle' /= handle) =>
             handle' = "gone" /\ ctrl_ready' = ctrl_ready + 1 /\ done_calls' = done_calls]_vars
DoneExactlyOnceWitness ==
    /\ called.method = "stream" /\ handle = "gone"
    /\ done_calls = 1 /\ appends = MaxChunks
    /\ Len(popped) = MaxChunks + 1 /\ popped[MaxChunks + 1] = Buffer_from(<<>>)

\* C33: in the channel variant a completed response is always observed:
\* once write() has run and callback has returned, either try_recv took the
\* response (the handler returned write) or write() saw notify set and
\* called Control::ready; the handler does not sit in wait, no wake-up on
\* its way, with the response in the channel.
ChannelResponseObserved ==
    (tpc = "done" /\ cpc = "returned") =>
        \/ chan_next /= "wait"
        \/ chan_ready > 0

====
